---- MODULE Spec2Model ----
(***************************************************************************)
(* Model of the tallyforms worker (src/src/index.js): the save-config and  *)
(* list-forms request handlers, the hourly cron pass with its scheduling   *)
(* decision, the form patcher and the rate-limit counter, over a key-value *)
(* store with expiring keys and a remote form gateway.                     *)
(*                                                                         *)
(* Every await of a handler is one step of the model, so that concurrent   *)
(* invocations interleave exactly where the event loop lets them.          *)
(***************************************************************************)
EXTENDS Integers, Sequences, FiniteSets, TLC

VARIABLES
    kv,       \* env.TALLYFORMS: key -> Absent or an entry with its expiry
    remote,   \* the Tally form service: formId -> sequence of blocks
    now,      \* wall clock, in whole hours since EpochDate 00:00 UTC
    req,      \* the fetch() invocations in flight, one per slot
    tick,     \* the scheduled() invocations in flight, one per slot
    hist      \* history of what happened, read by the properties only

vars == <<kv, remote, now, req, tick, hist>>

----------------------------------------------------------------------------
(* Bounds of the model.                                                    *)

\* number of form ids the store can hold a configuration for
NumForms == 6
\* the clock stops at this hour
MaxNow == 26
\* the number of fetch() invocations of a run with concurrent requests
MaxInvocations == 2
\* the last hour of a day at which cron passes are followed
MaxHourOfDay == 1
\* hour boundaries one invocation can live through (an invocation lasts
\* seconds, so it sees the hour change at most this often)
MaxStall == 1
\* the clock of a run of the date computations starts at midnight UTC of
\* one of the days 0..MaxDay after EpochDate
MaxDay == 400

----------------------------------------------------------------------------
(* Program constants.                                                      *)

\* the ceiling compared against in checkRateLimit and incrementRateLimit
RateLimitMax == 5
\* expirationTtl of the counter and of the metadata, 86400 s, in hours
DayTtl == 24
\* expirationTtl of a disabled configuration, 259200 s, in hours
DisabledTtl == 72
\* hours of a calendar day, Date.prototype.getHours() ranges over 0..23
HoursPerDay == 24

----------------------------------------------------------------------------
(* JavaScript values.                                                      *)

Null == [t |-> "null"]
Undef == [t |-> "undefined"]
Num(n) == [t |-> "num", v |-> n]
Str(s) == [t |-> "str", v |-> s]

\* Number.prototype.toString() of a non-negative integer
NumToString(n) == ToString(n)

\* parseInt() of a decimal string written by NumToString
ParseInt(s) == CHOOSE n \in 0..99 : ToString(n) = s

\* String(n).padStart(2, '0')
PadStart2(n) == IF n < 10 THEN "0" \o ToString(n) ELSE ToString(n)

----------------------------------------------------------------------------
(* Calendar: the local wall-clock time new Date(now.toLocaleString(...))   *)
(* yields, and the day arithmetic of Date.prototype.setDate.               *)

\* The date of hour 0 of the clock (UTC).
EpochDate == [y |-> 2024, m |-> 2, d |-> 28]

\* UTC offsets, in hours, of the IANA zones the model's requests name.
TzOffset ==
    ("UTC" :> 0) @@ ("America/New_York" :> -5) @@ ("Atlantic/Azores" :> -1)

Timezones == DOMAIN TzOffset

IsLeap(y) == (y % 4 = 0 /\ y % 100 # 0) \/ y % 400 = 0

\* a calendar in which February always has 28 days
DaysInMonth_NoLeap(y, m) ==
    IF m = 2 THEN 28 ELSE IF m \in {4, 6, 9, 11} THEN 30 ELSE 31

DaysInMonth(y, m) ==
    IF m = 2 THEN (IF IsLeap(y) THEN 29 ELSE 28)
    ELSE IF m \in {4, 6, 9, 11} THEN 30 ELSE 31

\* setDate with a day number outside the month: the date rolls over into
\* the following or the preceding months.
RECURSIVE Normalise(_, _, _)
Normalise(y, m, d) ==
    IF d > DaysInMonth(y, m)
    THEN IF m = 12 THEN Normalise(y + 1, 1, d - DaysInMonth(y, m))
                   ELSE Normalise(y, m + 1, d - DaysInMonth(y, m))
    ELSE IF d < 1
    THEN IF m = 1 THEN Normalise(y - 1, 12, d + DaysInMonth(y - 1, 12))
                  ELSE Normalise(y, m - 1, d + DaysInMonth(y, m - 1))
    ELSE [y |-> y, m |-> m, d |-> d]

\* date.setDate(date.getDate() + n)
AddDays(date, n) == Normalise(date.y, date.m, date.d + n)

\* tzTime: the wall clock of zone tz at hour h of the clock
TzTime(tz, h) ==
    LET local == h + TzOffset[tz]
    IN  [date |-> AddDays(EpochDate, local \div HoursPerDay),
         hour |-> local % HoursPerDay]

\* `${year}-${month padded}-${day padded}`
formatDate(date) ==
    ToString(date.y) \o "-" \o PadStart2(date.m) \o "-" \o PadStart2(date.d)

----------------------------------------------------------------------------
(* The key-value store.                                                    *)

Forms == 1..NumForms
IPs == {1, 2}

ConfigKey(f) == <<"config", f>>

\* the metadata of the first two forms kept under each other's key
MetadataKey_Swapped(f) ==
    <<"metadata", IF f = 1 THEN 2 ELSE IF f = 2 THEN 1 ELSE f>>

MetadataKey(f) == <<"metadata", f>>

RateLimitKey(ip) == <<"ratelimit", ip>>

Keys == {ConfigKey(f) : f \in Forms} \cup {MetadataKey(f) : f \in Forms}
        \cup {RateLimitKey(ip) : ip \in IPs}

Absent == [t |-> "absent"]
NoExpiry == -1

Entry(val, exp) == [t |-> "entry", val |-> val, exp |-> exp]

\* env.TALLYFORMS.get(key): null when the key is absent
KvGet(store, k) == IF store[k] = Absent THEN Null ELSE store[k].val

\* a put without options that expires all the same
KvPut_Expiring(store, k, val) ==
    [store EXCEPT ![k] = Entry(val, DisabledTtl)]

\* env.TALLYFORMS.put(key, value) and put(key, value, {expirationTtl})
KvPut(store, k, val) == [store EXCEPT ![k] = Entry(val, NoExpiry)]

\* the expiry of an entry that is there already is kept
KvPutTtl_FromFirst(store, k, val, ttl, t) ==
    [store EXCEPT ![k] = Entry(val, IF store[k] = Absent THEN t + ttl
                                    ELSE store[k].exp)]

\* the expirationTtl option ignored
KvPutTtl_Forever(store, k, val, ttl, t) ==
    [store EXCEPT ![k] = Entry(val, NoExpiry)]

\* env.TALLYFORMS.put(key, value, {expirationTtl})
KvPutTtl(store, k, val, ttl, t) == [store EXCEPT ![k] = Entry(val, t + ttl)]

\* keys whose expiry has passed are gone
Expire(store, t) ==
    [k \in Keys |->
        IF store[k] # Absent /\ store[k].exp # NoExpiry /\ store[k].exp <= t
        THEN Absent ELSE store[k]]

\* env.TALLYFORMS.list({prefix: 'config:'}), in key order
RECURSIVE ConfigKeysFrom(_, _)
ConfigKeysFrom(store, f) ==
    IF f > NumForms THEN <<>>
    ELSE (IF store[ConfigKey(f)] # Absent THEN <<ConfigKey(f)>> ELSE <<>>)
         \o ConfigKeysFrom(store, f + 1)

KvListConfigs(store) == ConfigKeysFrom(store, 1)

----------------------------------------------------------------------------
(* The rate limiter.                                                       *)

\* the read-only check with an inclusive comparison
checkRateLimit_Inclusive(count) ==
    IF count = Null THEN TRUE ELSE ParseInt(count.v) <= RateLimitMax

\* allowed only while there is no counter
checkRateLimit_AbsentOnly(count) == count = Null

\* checkRateLimit, from the value get() returned
checkRateLimit(count) ==
    IF count = Null THEN TRUE ELSE ParseInt(count.v) < RateLimitMax

\* incrementRateLimit: const currentCount = count ? parseInt(count) : 0
CurrentCount(count) == IF count = Null THEN 0 ELSE ParseInt(count.v)

\* the ceiling test off by one: the counter may pass the ceiling once
RateLimitExceeded_OffByOne(currentCount) == currentCount > RateLimitMax

\* incrementRateLimit: the test that throws 'Rate limit exceeded'
RateLimitExceeded(currentCount) == currentCount >= RateLimitMax

\* incrementRateLimit: the value it stores
NewCount(currentCount) == Str(NumToString(currentCount + 1))

----------------------------------------------------------------------------
(* The configuration a save request builds.                                *)

\* active only with both offsets set
hasActiveFields_BothOffsets(fields) ==
    \E u \in DOMAIN fields :
        /\ fields[u].enabled
        /\ (fields[u].minDays # Null /\ fields[u].maxDays # Null)

\* handleSaveConfig: Object.values(fields).some(config => config.enabled &&
\* (config.minDays !== null || config.maxDays !== null))
hasActiveFields(fields) ==
    \E u \in DOMAIN fields :
        /\ fields[u].enabled
        /\ (fields[u].minDays # Null \/ fields[u].maxDays # Null)

\* handleSaveConfig: const config = {...}; updatedAt, which the worker
\* writes and never reads, is left out
NewConfig(apiKey, formId, timezone, fields) ==
    [apiKey |-> apiKey, formId |-> formId, timezone |-> timezone,
     fields |-> fields, lastRun |-> Null,
     disabled |-> ~hasActiveFields(fields)]

----------------------------------------------------------------------------
(* The form patcher: what updateFormDateLimits does with the blocks it     *)
(* read.                                                                   *)

EmptyPayload == [afterDate |-> Undef, beforeDate |-> Undef]

\* one iteration of form.blocks.forEach: the block afterwards, and whether
\* fieldModified was set
PatchBlock(block, fields, today) ==
    LET fieldConfig == IF block.uuid \in DOMAIN fields
                       THEN fields[block.uuid] ELSE Undef
        skip == [block |-> block, modified |-> FALSE]
    IN  IF block.type # "INPUT_DATE" THEN skip
        ELSE IF fieldConfig = Undef THEN skip
        ELSE IF ~fieldConfig.enabled THEN skip
        ELSE
        LET hasMinDays == fieldConfig.minDays # Null /\ fieldConfig.minDays # Undef
            hasMaxDays == fieldConfig.maxDays # Null /\ fieldConfig.maxDays # Undef
        IN  IF ~hasMinDays /\ ~hasMaxDays THEN skip
            ELSE
            LET p0 == IF block.payload = Undef THEN EmptyPayload
                      ELSE block.payload
                formattedMinDate ==
                    Str(formatDate(AddDays(today, fieldConfig.minDays.v)))
                formattedMaxDate ==
                    Str(formatDate(AddDays(today, fieldConfig.maxDays.v)))
                setMin == hasMinDays /\ p0.afterDate # formattedMinDate
                p1 == IF setMin THEN [p0 EXCEPT !.afterDate = formattedMinDate]
                      ELSE p0
                setMax == hasMaxDays /\ p1.beforeDate # formattedMaxDate
                p2 == IF setMax THEN [p1 EXCEPT !.beforeDate = formattedMaxDate]
                      ELSE p1
            IN  [block |-> [block EXCEPT !.payload = p2],
                 modified |-> setMin \/ setMax]

\* every block given an empty payload when it has none
PatchBlocks_Fresh(blocks, fields, today) ==
    [i \in DOMAIN blocks |->
        LET b == PatchBlock(blocks[i], fields, today).block
        IN  IF b.payload = Undef THEN [b EXCEPT !.payload = EmptyPayload]
            ELSE b]

\* the date blocks alone, without the other blocks of the form
PatchBlocks_DatesOnly(blocks, fields, today) ==
    SelectSeq([i \in DOMAIN blocks |->
                  PatchBlock(blocks[i], fields, today).block],
              LAMBDA b : b.type = "INPUT_DATE")

\* the blocks that are no date fields sent without their payload
PatchBlocks_Bare(blocks, fields, today) ==
    [i \in DOMAIN blocks |->
        IF blocks[i].type = "INPUT_DATE"
        THEN PatchBlock(blocks[i], fields, today).block
        ELSE [blocks[i] EXCEPT !.payload = Undef]]

\* the blocks after the forEach
PatchBlocks(blocks, fields, today) ==
    [i \in DOMAIN blocks |-> PatchBlock(blocks[i], fields, today).block]

\* modified as soon as a date block has an enabled rule
BlocksModified_AnyEnabled(blocks, fields, today) ==
    \E i \in DOMAIN blocks :
        /\ blocks[i].type = "INPUT_DATE"
        /\ blocks[i].uuid \in DOMAIN fields
        /\ fields[blocks[i].uuid].enabled

\* modified as soon as a date block has an enabled rule with an offset,
\* whatever the form holds
BlocksModified_AnyManaged(blocks, fields, today) ==
    \E i \in DOMAIN blocks :
        /\ blocks[i].type = "INPUT_DATE"
        /\ blocks[i].uuid \in DOMAIN fields
        /\ fields[blocks[i].uuid].enabled
        /\ \/ fields[blocks[i].uuid].minDays \notin {Null, Undef}
           \/ fields[blocks[i].uuid].maxDays \notin {Null, Undef}

\* the flag overwritten by every block: the last block decides
BlocksModified_LastOnly(blocks, fields, today) ==
    /\ blocks # <<>>
    /\ PatchBlock(blocks[Len(blocks)], fields, today).modified

\* blocksModified after the forEach
BlocksModified(blocks, fields, today) ==
    \E i \in DOMAIN blocks : PatchBlock(blocks[i], fields, today).modified

----------------------------------------------------------------------------
(* fetch() invocations.  A slot holds one invocation: its request, the     *)
(* locals of its handler, its response once it is done, and a record of    *)
(* the store keys it wrote and the gateway calls it made.                  *)

Slots == {1, 2}

\* no hour of the clock, and no local hour
NoHour == -1
NoPair == <<>>

IdleReq ==
    [kind |-> "idle", pc |-> "idle",
     ip |-> 0, apiKey |-> "", formId |-> 0, timezone |-> "", fields |-> Undef,
     existing |-> FALSE, count |-> -1, config |-> Null,
     blocks |-> <<>>, today |-> EpochDate, payload |-> <<>>,
     status |-> 0, reason |-> "", configuration |-> Null,
     writes |-> {}, gwReads |-> 0, gwWrites |-> 0, stall |-> 0, idx |-> 0]

\* jsonResponse(..., status): the invocation has answered; its locals are
\* gone, what it did remains on record
Finish(r, status, reason) ==
    [IdleReq EXCEPT !.kind = r.kind, !.pc = "done", !.ip = r.ip,
                    !.formId = r.formId, !.existing = r.existing,
                    !.count = r.count, !.idx = r.idx, !.writes = r.writes,
                    !.gwReads = r.gwReads, !.gwWrites = r.gwWrites,
                    !.status = status, !.reason = reason]

\* history: one more invocation has arrived (counted up to MaxInvocations)
Started(h) ==
    IF h.started < MaxInvocations THEN [h EXCEPT !.started = @ + 1] ELSE h

\* an invocation arrives in the first free slot
FreeSlot(s) ==
    /\ req[s].pc = "idle"
    /\ \A o \in Slots : o < s => req[o].pc # "idle"

InFlight(r) == r.pc \notin {"idle", "done"}

\* another save request of the same identity is in flight
OtherSaveInFlight(s, ip) ==
    \E o \in Slots \ {s} :
        req[o].kind = "save" /\ req[o].ip = ip /\ InFlight(req[o])

\* handleSaveConfig, from "Determine if any fields are active" to the
\* construction of config; Object.values(undefined) throws
BuildConfig(r) ==
    IF r.fields = Undef THEN Finish(r, 500, "exception")
    ELSE [r EXCEPT !.pc = "cfgPut",
                   !.config = NewConfig(r.apiKey, r.formId, r.timezone,
                                        r.fields)]

\* handleSaveConfig: if (!apiKey || !formId || !timezone)
MissingRequired(apiKey, formId, timezone) ==
    apiKey = "" \/ formId = 0 \/ timezone = ""

\* rate limiting applied to every save, updates included
RateLimited_Always(existingConfig) == TRUE

\* handleSaveConfig: if (!existingConfig), "only apply rate limiting for
\* NEW forms"
RateLimited(existingConfig) == existingConfig = Null

\* handleSaveConfig up to the first get: the required-field test and the
\* read of the existing configuration
SaveBegin(s, ip, apiKey, formId, timezone, fields, ok) ==
    /\ FreeSlot(s)
    /\ LET r0 == [IdleReq EXCEPT !.kind = "save", !.ip = ip,
                      !.apiKey = apiKey, !.formId = formId,
                      !.timezone = timezone, !.fields = fields]
           existingConfig == KvGet(kv, ConfigKey(formId))
           rx == [r0 EXCEPT !.existing = (existingConfig # Null)]
           r1 == IF MissingRequired(apiKey, formId, timezone)
                 THEN Finish(r0, 400, "validation")
                 ELSE IF ~ok THEN Finish(r0, 500, "store")
                 ELSE IF RateLimited(existingConfig)
                 THEN [rx EXCEPT !.pc = "rlGet"]
                 ELSE BuildConfig(rx)
       IN  /\ req' = [req EXCEPT ![s] = r1]
           /\ hist' = IF InFlight(r1) /\ OtherSaveInFlight(s, ip)
                      THEN [Started(hist) EXCEPT !.overlap[ip] = TRUE]
                      ELSE Started(hist)
    /\ UNCHANGED <<kv, remote, now, tick>>

\* incrementRateLimit: the get of the counter and the ceiling test
SaveRlGet(s, ok) ==
    /\ req[s].kind = "save" /\ req[s].pc = "rlGet"
    /\ LET r == req[s]
           ip == r.ip
           count == KvGet(kv, RateLimitKey(ip))
           currentCount == CurrentCount(count)
           \* a counter that is absent starts a new day of the identity
           h0 == IF count = Null
                 THEN [hist EXCEPT
                         !.seq[ip] = [start |-> now, n |-> 0, clean |-> TRUE],
                         !.acc[ip] = 0,
                         !.overlap[ip] = OtherSaveInFlight(s, ip)]
                 ELSE hist
           \* the position of this request in the day's sequence; every
           \* position past the ceiling is recorded as RateLimitMax + 1
           k == IF h0.seq[ip].n > RateLimitMax THEN h0.seq[ip].n
                ELSE h0.seq[ip].n + 1
       IN  IF ~ok
           THEN /\ req' = [req EXCEPT ![s] = Finish(r, 500, "store")]
                /\ hist' = hist
           ELSE /\ req' = [req EXCEPT ![s] =
                    IF RateLimitExceeded(currentCount)
                    THEN Finish([r EXCEPT !.count = currentCount, !.idx = k],
                                500, "quota")
                    ELSE [r EXCEPT !.pc = "rlPut", !.count = currentCount,
                                   !.idx = k]]
                /\ hist' = [h0 EXCEPT !.seq[ip].n = k]
    /\ UNCHANGED <<kv, remote, now, tick>>

\* incrementRateLimit: the put of the incremented counter; then, back in
\* handleSaveConfig, the configuration is built
SaveRlPut(s, ok) ==
    /\ req[s].kind = "save" /\ req[s].pc = "rlPut"
    /\ LET r == req[s]
           key == RateLimitKey(r.ip)
           r1 == [r EXCEPT !.writes = @ \cup {key}]
           r2 == BuildConfig(r1)
       IN  IF ~ok
           THEN /\ req' = [req EXCEPT ![s] = Finish(r, 500, "store")]
                /\ kv' = kv
                /\ hist' = [hist EXCEPT !.seq[r.ip].clean = FALSE]
           ELSE /\ kv' = KvPutTtl(kv, key, NewCount(r.count), DayTtl, now)
                /\ req' = [req EXCEPT ![s] = r2]
                /\ hist' = IF r2.pc = "done"
                           THEN [hist EXCEPT !.seq[r.ip].clean = FALSE]
                           ELSE hist
    /\ UNCHANGED <<remote, now, tick>>

\* history: the immediate apply of the configuration just saved for form f
\* failed, at this hour of the clock
ApplyFailed(h, f) == [h EXCEPT !.applyFailed[f] = now]

\* history: a save request persisted r.config where prev was stored.  A
\* configuration stored under a key that held none, by a request that took
\* it for new, counts as accepted for its identity; the log of due
\* decisions of the form restarts when the stored timezone changes, since
\* the local hours of another zone are other hours; a failure of the
\* immediate apply of the previous configuration is forgotten.
\* history: the hours of the last RateLimitMax + 1 new configurations
\* accepted from one identity, with one more at hour t
Accepted(times, t) ==
    LET all == Append(times, t)
    IN  IF Len(all) > RateLimitMax + 1 THEN Tail(all) ELSE all

StoredBySave(h, r, prev) ==
    LET h1 == IF ~r.existing /\ prev = Null
              THEN [h EXCEPT !.acc[r.ip] = @ + 1,
                             !.accAt[r.ip] = Accepted(@, now)]
              ELSE h
        h2 == [h1 EXCEPT !.applyFailed[r.formId] = NoHour,
                         !.pending[r.formId] = FALSE]
    IN  IF prev = Null
        THEN [h2 EXCEPT !.due[r.formId] = {}, !.failed[r.formId] = NoPair]
        ELSE IF prev.timezone # r.config.timezone
        THEN [h2 EXCEPT !.due[r.formId] = {}, !.failed[r.formId] = NoPair]
        ELSE h2

\* handleSaveConfig: the put of the configuration, with the 3-day expiry
\* when no field is active
SaveCfgPut(s, ok) ==
    /\ req[s].kind = "save" /\ req[s].pc = "cfgPut"
    /\ LET r == req[s]
           key == ConfigKey(r.formId)
           r1 == [r EXCEPT !.writes = @ \cup {key}]
       IN  IF ~ok
           THEN /\ req' = [req EXCEPT ![s] = Finish(r, 500, "store")]
                /\ kv' = kv
                /\ hist' = IF r.existing THEN hist
                           ELSE [hist EXCEPT !.seq[r.ip].clean = FALSE]
           ELSE /\ kv' = IF r.config.disabled
                         THEN KvPutTtl(kv, key, r.config, DisabledTtl, now)
                         ELSE KvPut(kv, key, r.config)
                /\ req' = [req EXCEPT ![s] =
                             IF r.config.disabled THEN Finish(r1, 200, "ok")
                             ELSE [r1 EXCEPT !.pc = "gwGet"]]
                /\ hist' = StoredBySave(hist, r, KvGet(kv, key))
    /\ UNCHANGED <<remote, now, tick>>

\* updateFormDateLimits called by handleSaveConfig: the GET of the form and
\* the computation of the new limits; a failure is logged and swallowed
SaveGwGet(s, ok) ==
    /\ req[s].kind = "save" /\ req[s].pc = "gwGet"
    /\ LET r == [req[s] EXCEPT !.gwReads = @ + 1]
           blocks == remote[r.formId]
           today == TzTime(r.config.timezone, now).date
       IN  req' = [req EXCEPT ![s] =
                IF ~ok THEN Finish(r, 200, "ok")
                ELSE IF BlocksModified(blocks, r.config.fields, today)
                THEN [r EXCEPT !.pc = "gwPatch",
                        !.blocks = blocks, !.today = today,
                        !.payload = PatchBlocks(blocks, r.config.fields, today)]
                ELSE Finish(r, 200, "ok")]
    /\ hist' = IF ok THEN hist ELSE ApplyFailed(hist, req[s].formId)
    /\ UNCHANGED <<kv, remote, now, tick>>

\* updateFormDateLimits called by handleSaveConfig: the PATCH
SaveGwPatch(s, ok) ==
    /\ req[s].kind = "save" /\ req[s].pc = "gwPatch"
    /\ LET r == [req[s] EXCEPT !.gwWrites = @ + 1]
       IN  /\ req' = [req EXCEPT ![s] = Finish(r, 200, "ok")]
           /\ remote' = IF ok THEN [remote EXCEPT ![r.formId] = r.payload]
                        ELSE remote
           /\ hist' = IF ok THEN hist ELSE ApplyFailed(hist, r.formId)
    /\ UNCHANGED <<kv, now, tick>>

\* handleGetForms up to the rate-limit answer: the apiKey test and
\* checkRateLimit
FormsBegin(s, ip, apiKey, ok) ==
    /\ FreeSlot(s)
    /\ LET r0 == [IdleReq EXCEPT !.kind = "forms", !.ip = ip,
                                 !.apiKey = apiKey]
           count == KvGet(kv, RateLimitKey(ip))
           r1 == [r0 EXCEPT !.count = CurrentCount(count)]
       IN  req' = [req EXCEPT ![s] =
                IF apiKey = "" THEN Finish(r0, 400, "validation")
                ELSE IF ~ok THEN Finish(r0, 500, "store")
                ELSE IF ~checkRateLimit(count) THEN Finish(r1, 429, "quota")
                ELSE [r1 EXCEPT !.pc = "fetchForms"]]
    /\ hist' = Started(hist)
    /\ UNCHANGED <<kv, remote, now, tick>>

\* handleGetForms: the fetch of the form list from the gateway
FormsFetch(s, ok) ==
    /\ req[s].kind = "forms" /\ req[s].pc = "fetchForms"
    /\ LET r == [req[s] EXCEPT !.gwReads = @ + 1]
       IN  req' = [req EXCEPT ![s] =
                IF ~ok THEN Finish(r, 500, "gateway")
                ELSE [r EXCEPT !.pc = "cfgGets"]]
    /\ UNCHANGED <<kv, remote, now, tick, hist>>

\* handleGetForms: the gets that mark each form as configured or not
FormsCfgGets(s, ok) ==
    /\ req[s].kind = "forms" /\ req[s].pc = "cfgGets"
    /\ req' = [req EXCEPT ![s] =
                IF ~ok THEN Finish(req[s], 500, "store")
                ELSE Finish(req[s], 200, "ok")]
    /\ UNCHANGED <<kv, remote, now, tick, hist>>

\* The credentials the gateway accepts for the forms: two API keys of the
\* account the forms belong to.
ValidKeys == {"k1", "k2"}

\* handleGetFormFields up to the call of the gateway: the test of apiKey
\* and formId
FieldsBegin(s, apiKey, formId) ==
    /\ FreeSlot(s)
    /\ LET r0 == [IdleReq EXCEPT !.kind = "fields", !.apiKey = apiKey,
                                 !.formId = formId]
       IN  req' = [req EXCEPT ![s] =
                IF apiKey = "" \/ formId = 0
                THEN Finish(r0, 400, "validation")
                ELSE [r0 EXCEPT !.pc = "fetchForm"]]
    /\ hist' = Started(hist)
    /\ UNCHANGED <<kv, remote, now, tick>>

\* handleGetFormFields: the GET of the form with the credential of the
\* request; the gateway answers ok to a valid credential only
FieldsFetch(s, ok) ==
    /\ req[s].kind = "fields" /\ req[s].pc = "fetchForm"
    /\ ok => req[s].apiKey \in ValidKeys
    /\ LET r == [req[s] EXCEPT !.gwReads = @ + 1]
       IN  req' = [req EXCEPT ![s] =
                IF ~ok THEN Finish(r, 500, "gateway")
                ELSE [r EXCEPT !.pc = "cfgGet", !.blocks = remote[r.formId]]]
    /\ UNCHANGED <<kv, remote, now, tick, hist>>

\* handleGetFormFields: the get of the stored configuration, which is
\* returned whole in the response
FieldsCfgGet(s, ok) ==
    /\ req[s].kind = "fields" /\ req[s].pc = "cfgGet"
    /\ LET r == req[s]
           configuration == KvGet(kv, ConfigKey(r.formId))
       IN  req' = [req EXCEPT ![s] =
                IF ~ok THEN Finish(r, 500, "store")
                ELSE [Finish(r, 200, "ok") EXCEPT
                        !.apiKey = r.apiKey,
                        !.configuration = configuration]]
    /\ UNCHANGED <<kv, remote, now, tick, hist>>

\* the response has been delivered; the slot is free again
Retire(s) ==
    /\ req[s].pc = "done"
    /\ req' = [req EXCEPT ![s] = IdleReq]
    /\ UNCHANGED <<kv, remote, now, tick, hist>>

----------------------------------------------------------------------------
(* scheduled() invocations: runCronTask with shouldUpdateNow and           *)
(* updateFormDateLimits.  Besides the locals of the pass, a slot records   *)
(* for the configuration being processed what the pass decided and did.    *)

Ticks == {1, 2}

\* what the history keeps of the configuration a pass is processing:
\*   decided  shouldUpdateNow returned (due says what)
\*   logged   its local hour had a due decision before
\*   afterFailure, sameHour  the last due decision before was followed by a
\*            failed patch, taken in this same local hour
\*   retry    the immediate apply of the stored configuration had failed
\*            in an earlier hour of the clock
\*   pending  a cancelled pass had left it without attempting its patch
NoItem ==
    [f |-> 0, logged |-> FALSE, due |-> FALSE, decided |-> FALSE,
     afterFailure |-> FALSE, sameHour |-> FALSE, retry |-> FALSE,
     pending |-> FALSE,
     writes |-> {}, gwReads |-> 0, gwWrites |-> 0]

IdleTick ==
    [pc |-> "idle", keys |-> <<>>, configData |-> Null,
     at |-> 0, cur |-> [date |-> EpochDate, hour |-> 0],
     blocks |-> <<>>, today |-> EpochDate, payload |-> <<>>,
     stall |-> 0, crashed |-> FALSE, cancelled |-> FALSE, item |-> NoItem]

\* the iteration started again for the same key
NextKey_Retry(k) ==
    [k EXCEPT !.pc = "cfgGet", !.configData = Null,
              !.blocks = <<>>, !.today = EpochDate, !.payload = <<>>]

\* the pass given up at the end of the iteration, whatever keys remain
NextKey_Abort(k) ==
    [k EXCEPT !.pc = "idle", !.keys = <<>>, !.configData = Null,
              !.blocks = <<>>, !.today = EpochDate, !.payload = <<>>,
              !.stall = 0]

\* the end of one iteration of for (const key of list.keys), by completion,
\* continue or the catch: on to the next key, or 'Cron task completed'
NextKey(k) ==
    IF Len(k.keys) > 1
    THEN [k EXCEPT !.pc = "cfgGet", !.keys = Tail(@), !.configData = Null,
                   !.blocks = <<>>, !.today = EpochDate, !.payload = <<>>]
    ELSE [k EXCEPT !.pc = "idle", !.keys = <<>>, !.configData = Null,
                   !.blocks = <<>>, !.today = EpochDate, !.payload = <<>>,
                   !.stall = 0]

\* the form a config key belongs to
FormOf(key) == key[2]

\* the metadata taken from the worker's own clock, not from tzTime
NewMetadata_WorkerHour(cur, timezone) ==
    [lastUpdateHour |-> now % HoursPerDay,
     lastUpdateDate |-> formatDate(cur.date), timezone |-> timezone]

\* shouldUpdateNow: the object put under the metadata key
NewMetadata(cur, timezone) ==
    [lastUpdateHour |-> cur.hour, lastUpdateDate |-> formatDate(cur.date),
     timezone |-> timezone]

\* the comparison of the date alone: one update a day
AlreadyUpdated_SameDay(metadata, cur) ==
    /\ metadata # Null
    /\ metadata.lastUpdateDate = formatDate(cur.date)

\* shouldUpdateNow: "if we already updated today at this hour, skip"
AlreadyUpdated(metadata, cur) ==
    /\ metadata # Null
    /\ metadata.lastUpdateDate = formatDate(cur.date)
    /\ metadata.lastUpdateHour = cur.hour

\* what the history keeps of a due decision
DuePair(timezone, cur) == <<timezone, formatDate(cur.date), cur.hour>>

\* history: a pass decided that form f is due in the local hour pair; a
\* decision for an hour that already had one is a repeat
DecidedDue(h, f, pair) ==
    [h EXCEPT !.due[f] = @ \cup {pair},
              !.repeat[f] = @ \/ pair \in h.due[f],
              !.failed[f] = NoPair]

\* history: the patch that followed the due decision of form f in the
\* local hour pair failed
PatchFailed(h, f, pair) == [h EXCEPT !.failed[f] = pair]

\* history: shouldUpdateNow has returned for form f; the next decision is
\* not the first one after the save any more
Decided(h, f) == [h EXCEPT !.applyFailed[f] = NoHour, !.pending[f] = FALSE]

\* runCronTask: the list of the config keys
TickBegin(t, ok) ==
    /\ tick[t].pc = "idle"
    /\ LET keys == KvListConfigs(kv)
       IN  tick' = [tick EXCEPT ![t] =
                IF ~ok THEN [IdleTick EXCEPT !.crashed = TRUE]
                ELSE IF keys = <<>> THEN IdleTick
                ELSE [IdleTick EXCEPT !.pc = "cfgGet", !.keys = keys]]
    /\ UNCHANGED <<kv, remote, now, req, hist>>

\* runCronTask: the get of one configuration; shouldUpdateNow up to its
\* first await (the disabled test and the reading of the clock)
TickCfgGet(t, ok) ==
    /\ tick[t].pc = "cfgGet"
    /\ LET k == [tick[t] EXCEPT
                    !.item = [NoItem EXCEPT !.f = FormOf(Head(tick[t].keys))]]
           configData == KvGet(kv, Head(k.keys))
       IN  tick' = [tick EXCEPT ![t] =
                IF ~ok THEN NextKey(k)
                ELSE IF configData = Null THEN NextKey(k)
                ELSE IF configData.apiKey = "" \/ configData.formId = 0
                THEN NextKey(k)
                ELSE IF configData.disabled THEN NextKey(k)
                ELSE [k EXCEPT !.pc = "metaGet", !.configData = configData,
                               !.at = now,
                               !.cur = TzTime(configData.timezone, now)]]
    /\ UNCHANGED <<kv, remote, now, req, hist>>

\* shouldUpdateNow: the get of the metadata and the comparison
TickMetaGet(t, ok) ==
    /\ tick[t].pc = "metaGet"
    /\ LET k == tick[t]
           f == k.configData.formId
           metadata == KvGet(kv, MetadataKey(f))
           pair == DuePair(k.configData.timezone, k.cur)
           k1 == [k EXCEPT
                    !.item.logged = pair \in hist.due[f],
                    !.item.afterFailure = hist.failed[f] # NoPair,
                    !.item.sameHour = hist.failed[f] = pair,
                    !.item.retry = /\ hist.applyFailed[f] # NoHour
                                   /\ hist.applyFailed[f] < k.at,
                    !.item.pending = hist.pending[f]]
       IN  IF ~ok
           THEN /\ tick' = [tick EXCEPT ![t] = NextKey(k)]
                /\ hist' = hist
           ELSE IF AlreadyUpdated(metadata, k.cur)
           THEN /\ tick' = [tick EXCEPT ![t] =
                             NextKey([k1 EXCEPT !.item.decided = TRUE])]
                /\ hist' = Decided(hist, f)
           ELSE /\ tick' = [tick EXCEPT ![t] = [k1 EXCEPT !.pc = "metaPut"]]
                /\ hist' = hist
    /\ UNCHANGED <<kv, remote, now, req>>

\* shouldUpdateNow: the put of the metadata; it returns true
TickMetaPut(t, ok) ==
    /\ tick[t].pc = "metaPut"
    /\ LET k == tick[t]
           f == k.configData.formId
           key == MetadataKey(f)
       IN  IF ~ok
           THEN /\ tick' = [tick EXCEPT ![t] = NextKey(k)]
                /\ UNCHANGED <<kv, hist>>
           ELSE /\ kv' = KvPutTtl(kv, key,
                            NewMetadata(k.cur, k.configData.timezone),
                            DayTtl, now)
                /\ tick' = [tick EXCEPT ![t] =
                             [k EXCEPT !.pc = "gwGet", !.item.due = TRUE,
                                       !.item.decided = TRUE,
                                       !.item.writes = @ \cup {key}]]
                /\ hist' = Decided(DecidedDue(hist, f,
                                DuePair(k.configData.timezone, k.cur)), f)
    /\ UNCHANGED <<remote, now, req>>

\* updateFormDateLimits called by runCronTask: the GET of the form and the
\* computation of the new limits
TickGwGet(t, ok) ==
    /\ tick[t].pc = "gwGet"
    /\ LET k == [tick[t] EXCEPT !.item.gwReads = @ + 1]
           c == k.configData
           blocks == remote[c.formId]
           today == TzTime(c.timezone, now).date
       IN  tick' = [tick EXCEPT ![t] =
                IF ~ok THEN NextKey(k)
                ELSE IF BlocksModified(blocks, c.fields, today)
                THEN [k EXCEPT !.pc = "gwPatch",
                               !.blocks = blocks, !.today = today,
                               !.payload = PatchBlocks(blocks, c.fields, today)]
                ELSE [k EXCEPT !.pc = "cfgPut",
                               !.blocks = blocks, !.today = today]]
    /\ hist' = IF ok THEN hist
               ELSE PatchFailed(hist, tick[t].configData.formId,
                        DuePair(tick[t].configData.timezone, tick[t].cur))
    /\ UNCHANGED <<kv, remote, now, req>>

\* updateFormDateLimits called by runCronTask: the PATCH
TickGwPatch(t, ok) ==
    /\ tick[t].pc = "gwPatch"
    /\ LET k == [tick[t] EXCEPT !.item.gwWrites = @ + 1]
       IN  IF ~ok
           THEN /\ tick' = [tick EXCEPT ![t] = NextKey(k)]
                /\ remote' = remote
                /\ hist' = PatchFailed(hist, k.configData.formId,
                                DuePair(k.configData.timezone, k.cur))
           ELSE /\ tick' = [tick EXCEPT ![t] = [k EXCEPT !.pc = "cfgPut"]]
                /\ remote' = [remote EXCEPT ![k.configData.formId] = k.payload]
                /\ hist' = hist
    /\ UNCHANGED <<kv, now, req>>

\* runCronTask: configData.lastRun = Date.now() and the put of the
\* configuration
TickCfgPut(t, ok) ==
    /\ tick[t].pc = "cfgPut"
    /\ LET k == tick[t]
           key == Head(k.keys)
           configData == [k.configData EXCEPT !.lastRun = Num(now)]
       IN  IF ~ok
           THEN /\ tick' = [tick EXCEPT ![t] = NextKey(k)]
                /\ kv' = kv
           ELSE /\ tick' = [tick EXCEPT ![t] =
                             NextKey([k EXCEPT !.item.writes = @ \cup {key}])]
                /\ kv' = KvPut(kv, key, configData)
    /\ UNCHANGED <<remote, now, req, hist>>

\* the configurations a pass that stops now leaves without having
\* attempted their patch, although they are to be patched in this local
\* hour: the one it decided due and has not started to patch, and those it
\* has not decided on, active and without a due decision in this hour
PendingAt(k) ==
    LET first == IF k.pc \in {"cfgGet", "metaGet", "metaPut"} THEN 1 ELSE 2
        undecided == {FormOf(k.keys[i]) : i \in first .. Len(k.keys)}
    IN  (IF k.pc = "gwGet" THEN {k.configData.formId} ELSE {})
        \cup
        {f \in undecided :
            LET c == KvGet(kv, ConfigKey(f))
            IN  /\ c # Null
                /\ ~c.disabled
                /\ DuePair(c.timezone, TzTime(c.timezone, now))
                      \notin hist.due[f]}

\* the runtime cancels scheduled() while it waits at an await of
\* runCronTask: nothing after that await runs
TickCancel(t) ==
    /\ tick[t].pc # "idle"
    /\ tick' = [tick EXCEPT ![t] = [IdleTick EXCEPT !.cancelled = TRUE]]
    /\ hist' = [hist EXCEPT !.pending =
                    [f \in Forms |-> @[f] \/ f \in PendingAt(tick[t])]]
    /\ UNCHANGED <<kv, remote, now, req>>

----------------------------------------------------------------------------
(* The form's owner edits the remote form while the worker runs.           *)

\* no edit yet
NoEdit == [t |-> "none"]

\* an invocation holds the blocks it read of form f and has not sent its
\* PATCH yet: the window between the GET and the PATCH of
\* updateFormDateLimits
ReadHeld(f) ==
    \/ \E s \in Slots :
          req[s].kind = "save" /\ req[s].pc = "gwPatch" /\ req[s].formId = f
    \/ \E t \in Ticks :
          tick[t].pc = "gwPatch" /\ tick[t].configData.formId = f

\* a concurrent edit: the title block of form f gets a new payload.
\* History: the payload, and whether the edit fell into a window.
ExternalEdit(f, title) ==
    /\ remote[f][1].type = "TITLE"
    /\ remote[f][1].payload # [html |-> Str(title)]
    /\ remote' = [remote EXCEPT ![f][1].payload = [html |-> Str(title)]]
    /\ hist' = [hist EXCEPT !.edit[f] =
                    [val |-> [html |-> Str(title)], raced |-> ReadHeld(f)]]
    /\ UNCHANGED <<kv, now, req, tick>>

----------------------------------------------------------------------------
(* The clock.                                                              *)

\* d hours pass and the clock shows one of hours; expired keys disappear.
\* An invocation in flight lives through at most MaxStall hour boundaries.
Advance(d, hours) ==
    /\ now + d \in hours
    /\ \A s \in Slots : InFlight(req[s]) => req[s].stall + d <= MaxStall
    /\ \A t \in Ticks : tick[t].pc # "idle" => tick[t].stall + d <= MaxStall
    /\ now' = now + d
    /\ kv' = Expire(kv, now + d)
    /\ req' = [s \in Slots |->
                IF InFlight(req[s]) THEN [req[s] EXCEPT !.stall = @ + d]
                ELSE req[s]]
    /\ tick' = [t \in Ticks |->
                IF tick[t].pc # "idle" THEN [tick[t] EXCEPT !.stall = @ + d]
                ELSE tick[t]]
    /\ UNCHANGED <<remote, hist>>

----------------------------------------------------------------------------
(* Initial states and the inputs of the requests.                          *)

\* the blocks of every remote form: a title and one date field
InitBlocks ==
    << [uuid |-> "t1", type |-> "TITLE", payload |-> Undef],
       [uuid |-> "u1", type |-> "INPUT_DATE", payload |-> EmptyPayload] >>

\* field rules a save request carries: one managed date field, switched on
\* or off
FieldsOn ==
    "u1" :> [enabled |-> TRUE, minDays |-> Num(0), maxDays |-> Null]
FieldsOff ==
    "u1" :> [enabled |-> FALSE, minDays |-> Num(0), maxDays |-> Null]

InitHist ==
    [seq |-> [ip \in IPs |-> [start |-> 0, n |-> 0, clean |-> FALSE]],
     acc |-> [ip \in IPs |-> 0],
     overlap |-> [ip \in IPs |-> FALSE],
     due |-> [f \in Forms |-> {}],
     repeat |-> [f \in Forms |-> FALSE],
     failed |-> [f \in Forms |-> NoPair],
     applyFailed |-> [f \in Forms |-> NoHour],
     pending |-> [f \in Forms |-> FALSE],
     edit |-> [f \in Forms |-> [val |-> NoEdit, raced |-> FALSE]],
     accAt |-> [ip \in IPs |-> <<>>],
     started |-> 0]

\* the worker is deployed on an empty store
Init ==
    /\ kv = [k \in Keys |-> Absent]
    /\ remote = [f \in Forms |-> InitBlocks]
    /\ now = 0
    /\ req = [s \in Slots |-> IdleReq]
    /\ tick = [t \in Ticks |-> IdleTick]
    /\ hist = InitHist

----------------------------------------------------------------------------
(* Sequential requests of one identity over NumForms forms.                *)

SeqFields == {FieldsOn, FieldsOff, Undef}

\* hours the clock jumps between two requests
SeqSteps == {12, DayTtl}

\* The requests are for form ids that are not stored yet (or carry no form
\* id at all); ids being interchangeable, such a request takes the least
\* unused one.
SeqFormIds ==
    LET unused == {f \in Forms : kv[ConfigKey(f)] = Absent}
    IN  {0} \cup {f \in unused : \A g \in unused : f <= g}

NextSeq ==
    \/ \E apiKey \in {"k1", ""}, formId \in SeqFormIds,
          timezone \in {"UTC", ""}, fields \in SeqFields, ok \in BOOLEAN :
          SaveBegin(1, 1, apiKey, formId, timezone, fields, ok)
    \/ \E ok \in BOOLEAN : SaveRlGet(1, ok)
    \/ \E ok \in BOOLEAN : SaveRlPut(1, ok)
    \/ \E ok \in BOOLEAN : SaveCfgPut(1, ok)
    \/ SaveGwGet(1, TRUE)
    \/ SaveGwPatch(1, TRUE)
    \/ \E apiKey \in {"k1", ""}, ok \in BOOLEAN : FormsBegin(1, 1, apiKey, ok)
    \/ \E ok \in BOOLEAN : FormsFetch(1, ok)
    \/ \E ok \in BOOLEAN : FormsCfgGets(1, ok)
    \/ Retire(1)
    \/ \E d \in SeqSteps : Advance(d, 0..MaxNow)

SpecSeq == Init /\ [][NextSeq]_vars

----------------------------------------------------------------------------
(* Concurrent requests of two identities over two forms.                   *)

ConcForms == {1, 2}
ConcFields == {FieldsOn, Undef}

\* counter values of identity 1 when the model starts
ConcCounts == {0, 4, 5}

\* Identity 1 has already had c configurations accepted today, for form
\* ids other than ConcForms (the store holds them under keys the model does
\* not follow): its counter holds c and expires in a day.
InitConc ==
    \E c \in ConcCounts :
        /\ kv = [k \in Keys |->
                    IF k = RateLimitKey(1) /\ c > 0
                    THEN Entry(Str(NumToString(c)), DayTtl) ELSE Absent]
        /\ remote = [f \in Forms |-> InitBlocks]
        /\ now = 0
        /\ req = [s \in Slots |-> IdleReq]
        /\ tick = [t \in Ticks |-> IdleTick]
        /\ hist = [InitHist EXCEPT
                     !.seq[1] = [start |-> 0, n |-> c, clean |-> c > 0],
                     !.acc[1] = c]

NextConc ==
    \/ \E s \in Slots, ip \in IPs, apiKey \in {"k1", ""},
          formId \in {0} \cup ConcForms, timezone \in {"UTC", ""},
          fields \in ConcFields, ok \in BOOLEAN :
          /\ hist.started < MaxInvocations
          /\ SaveBegin(s, ip, apiKey, formId, timezone, fields, ok)
    \/ \E s \in Slots, ok \in BOOLEAN : SaveRlGet(s, ok)
    \/ \E s \in Slots, ok \in BOOLEAN : SaveRlPut(s, ok)
    \/ \E s \in Slots, ok \in BOOLEAN : SaveCfgPut(s, ok)
    \/ \E s \in Slots : SaveGwGet(s, TRUE)
    \/ \E s \in Slots : SaveGwPatch(s, TRUE)
    \/ \E s \in Slots, ip \in IPs, apiKey \in {"k1", ""}, ok \in BOOLEAN :
          /\ hist.started < MaxInvocations
          /\ FormsBegin(s, ip, apiKey, ok)
    \/ \E s \in Slots, ok \in BOOLEAN : FormsFetch(s, ok)
    \/ \E s \in Slots, ok \in BOOLEAN : FormsCfgGets(s, ok)
    \/ \E s \in Slots : Retire(s)

SpecConc == InitConc /\ [][NextConc]_vars

----------------------------------------------------------------------------
(* Cron passes, one at a time, over a form whose configuration is saved    *)
(* and re-saved, in either timezone, between the passes.                   *)

TickForms == {1}
TickFields == {FieldsOn, FieldsOff}
TickZones == {"UTC", "America/New_York"}

\* the hours the clock shows: the first hours of every day
TickHours == {h \in 0..MaxNow : h % HoursPerDay <= MaxHourOfDay}

NextTick ==
    \/ /\ tick[1].pc = "idle"
       /\ \E formId \in TickForms, timezone \in TickZones,
             fields \in TickFields :
             SaveBegin(1, 1, "k1", formId, timezone, fields, TRUE)
    \/ SaveRlGet(1, TRUE)
    \/ SaveRlPut(1, TRUE)
    \/ SaveCfgPut(1, TRUE)
    \/ SaveGwGet(1, TRUE)
    \/ SaveGwPatch(1, TRUE)
    \/ Retire(1)
    \/ /\ req[1].pc = "idle"
       /\ \E ok \in BOOLEAN : TickBegin(1, ok)
    \/ \E ok \in BOOLEAN : TickCfgGet(1, ok)
    \/ \E ok \in BOOLEAN : TickMetaGet(1, ok)
    \/ \E ok \in BOOLEAN : TickMetaPut(1, ok)
    \/ TickGwGet(1, TRUE)
    \/ TickGwPatch(1, TRUE)
    \/ \E ok \in BOOLEAN : TickCfgPut(1, ok)
    \/ \E d \in 1..MaxNow : Advance(d, TickHours)

SpecTick == Init /\ [][NextTick]_vars

----------------------------------------------------------------------------
(* Two cron passes that may overlap (a pass and its retried invocation),   *)
(* over one form saved beforehand, within two hours of the clock.          *)

OverlapHours == {0, 1}

NextOverlap ==
    \/ /\ \A t \in Ticks : tick[t].pc = "idle"
       /\ SaveBegin(1, 1, "k1", 1, "UTC", FieldsOn, TRUE)
    \/ SaveRlGet(1, TRUE)
    \/ SaveRlPut(1, TRUE)
    \/ SaveCfgPut(1, TRUE)
    \/ \E ok \in BOOLEAN : SaveGwGet(1, ok)
    \/ \E ok \in BOOLEAN : SaveGwPatch(1, ok)
    \/ Retire(1)
    \/ /\ req[1].pc = "idle"
       /\ \E t \in Ticks, ok \in BOOLEAN : TickBegin(t, ok)
    \/ \E t \in Ticks, ok \in BOOLEAN : TickCfgGet(t, ok)
    \/ \E t \in Ticks, ok \in BOOLEAN : TickMetaGet(t, ok)
    \/ \E t \in Ticks, ok \in BOOLEAN : TickMetaPut(t, ok)
    \/ \E t \in Ticks, ok \in BOOLEAN : TickGwGet(t, ok)
    \/ \E t \in Ticks, ok \in BOOLEAN : TickGwPatch(t, ok)
    \/ \E t \in Ticks, ok \in BOOLEAN : TickCfgPut(t, ok)
    \/ Advance(1, OverlapHours)

SpecOverlap == Init /\ [][NextOverlap]_vars

----------------------------------------------------------------------------
(* The patcher at work: one form whose remote blocks start in one of       *)
(* several shapes, saved and re-saved with field rules of every kind, and  *)
(* one cron pass at a time, at midnight UTC of successive days; the        *)
(* gateway may fail every call.                                            *)

\* shapes of the remote form: a title and date fields, with and without
\* payload, with and without limits already set
RemoteDated ==
    << [uuid |-> "t1", type |-> "TITLE", payload |-> [label |-> Str("Trip")]],
       [uuid |-> "u1", type |-> "INPUT_DATE", payload |-> Undef],
       [uuid |-> "u2", type |-> "INPUT_DATE",
        payload |-> [label |-> Str("Return"),
                     afterDate |-> Str("2024-01-01"),
                     beforeDate |-> Str("2024-03-01")]] >>
RemoteToday ==
    << [uuid |-> "u1", type |-> "INPUT_DATE",
        payload |-> [afterDate |-> Str("2024-02-27"),
                     beforeDate |-> Str("2024-03-01")]],
       [uuid |-> "t1", type |-> "TITLE", payload |-> Undef] >>
PatchRemotes == {RemoteDated, RemoteToday}

\* field rules: both limits on one field and a disabled rule on another;
\* an enabled rule with both offsets null; an enabled rule whose offsets
\* are missing from the request; a rule for the title and one limit on the
\* second date field
FieldsBoth ==
    ("u1" :> [enabled |-> TRUE, minDays |-> Num(-1), maxDays |-> Num(2)])
    @@ ("u2" :> [enabled |-> FALSE, minDays |-> Num(0), maxDays |-> Num(0)])
FieldsNull ==
    "u1" :> [enabled |-> TRUE, minDays |-> Null, maxDays |-> Null]
FieldsNoOffsets ==
    "u1" :> [enabled |-> TRUE, minDays |-> Undef, maxDays |-> Undef]
FieldsOther ==
    ("t1" :> [enabled |-> TRUE, minDays |-> Num(0), maxDays |-> Null])
    @@ ("u2" :> [enabled |-> TRUE, minDays |-> Null, maxDays |-> Num(2)])
PatchFields == {FieldsBoth, FieldsNull, FieldsNoOffsets, FieldsOther}

PatchZones == {"UTC", "America/New_York"}
PatchHours == {h \in 0..MaxNow : h % HoursPerDay = 0}

InitPatch ==
    /\ kv = [k \in Keys |-> Absent]
    /\ \E blocks \in PatchRemotes :
          remote = [f \in Forms |-> IF f = 1 THEN blocks ELSE InitBlocks]
    /\ now = 0
    /\ req = [s \in Slots |-> IdleReq]
    /\ tick = [t \in Ticks |-> IdleTick]
    /\ hist = InitHist

NextPatch ==
    \/ /\ tick[1].pc = "idle"
       /\ \E timezone \in PatchZones, fields \in PatchFields :
             SaveBegin(1, 1, "k1", 1, timezone, fields, TRUE)
    \/ SaveRlGet(1, TRUE)
    \/ SaveRlPut(1, TRUE)
    \/ SaveCfgPut(1, TRUE)
    \/ \E ok \in BOOLEAN : SaveGwGet(1, ok)
    \/ \E ok \in BOOLEAN : SaveGwPatch(1, ok)
    \/ Retire(1)
    \/ /\ ~InFlight(req[1])
       /\ TickBegin(1, TRUE)
    \/ TickCfgGet(1, TRUE)
    \/ TickMetaGet(1, TRUE)
    \/ TickMetaPut(1, TRUE)
    \/ \E ok \in BOOLEAN : TickGwGet(1, ok)
    \/ \E ok \in BOOLEAN : TickGwPatch(1, ok)
    \/ TickCfgPut(1, TRUE)
    \/ /\ ~InFlight(req[1]) /\ tick[1].pc = "idle"
       /\ Advance(HoursPerDay, PatchHours)

SpecPatch == InitPatch /\ [][NextPatch]_vars

----------------------------------------------------------------------------
(* Failing gateway: one form saved and re-saved in any of the timezones,   *)
(* one cron pass at a time, hour after hour; every gateway call of the     *)
(* immediate apply and of the passes may fail.                             *)

RetryHours == 0 .. MaxHourOfDay + 1

NextRetry ==
    \/ /\ tick[1].pc = "idle"
       /\ \E timezone \in Timezones :
             SaveBegin(1, 1, "k1", 1, timezone, FieldsOn, TRUE)
    \/ SaveRlGet(1, TRUE)
    \/ SaveRlPut(1, TRUE)
    \/ SaveCfgPut(1, TRUE)
    \/ \E ok \in BOOLEAN : SaveGwGet(1, ok)
    \/ \E ok \in BOOLEAN : SaveGwPatch(1, ok)
    \/ Retire(1)
    \/ /\ req[1].pc = "idle"
       /\ TickBegin(1, TRUE)
    \/ TickCfgGet(1, TRUE)
    \/ TickMetaGet(1, TRUE)
    \/ TickMetaPut(1, TRUE)
    \/ \E ok \in BOOLEAN : TickGwGet(1, ok)
    \/ \E ok \in BOOLEAN : TickGwPatch(1, ok)
    \/ TickCfgPut(1, TRUE)
    \/ Advance(1, RetryHours)

SpecRetry == Init /\ [][NextRetry]_vars

----------------------------------------------------------------------------
(* A pass over two configurations: the gateway may fail every call of the  *)
(* pass and the read of the immediate apply, the store every put of the    *)
(* pass, and the pass may be cancelled at every await.                     *)

PassForms == {1, 2}
PassHours == {0, 1}

NextPass ==
    \/ /\ tick[1].pc = "idle"
       /\ \E formId \in PassForms :
             SaveBegin(1, 1, "k1", formId, "UTC", FieldsOn, TRUE)
    \/ SaveRlGet(1, TRUE)
    \/ SaveRlPut(1, TRUE)
    \/ SaveCfgPut(1, TRUE)
    \/ \E ok \in BOOLEAN : SaveGwGet(1, ok)
    \/ SaveGwPatch(1, TRUE)
    \/ Retire(1)
    \/ /\ req[1].pc = "idle"
       /\ TickBegin(1, TRUE)
    \/ TickCfgGet(1, TRUE)
    \/ TickMetaGet(1, TRUE)
    \/ \E ok \in BOOLEAN : TickMetaPut(1, ok)
    \/ \E ok \in BOOLEAN : TickGwGet(1, ok)
    \/ \E ok \in BOOLEAN : TickGwPatch(1, ok)
    \/ \E ok \in BOOLEAN : TickCfgPut(1, ok)
    \/ TickCancel(1)
    \/ Advance(1, PassHours)

SpecPass == Init /\ [][NextPass]_vars

----------------------------------------------------------------------------
(* Save requests and a cron pass that interleave freely: one form, saved   *)
(* and re-saved with its rule switched on or off while a pass processes    *)
(* it.                                                                     *)

MixFields == {FieldsOn, FieldsOff}
MixHours == {0, 1}

NextMix ==
    \/ \E fields \in MixFields : SaveBegin(1, 1, "k1", 1, "UTC", fields, TRUE)
    \/ SaveRlGet(1, TRUE)
    \/ SaveRlPut(1, TRUE)
    \/ SaveCfgPut(1, TRUE)
    \/ \E ok \in BOOLEAN : SaveGwGet(1, ok)
    \/ \E ok \in BOOLEAN : SaveGwPatch(1, ok)
    \/ Retire(1)
    \/ TickBegin(1, TRUE)
    \/ TickCfgGet(1, TRUE)
    \/ TickMetaGet(1, TRUE)
    \/ TickMetaPut(1, TRUE)
    \/ \E ok \in BOOLEAN : TickGwGet(1, ok)
    \/ \E ok \in BOOLEAN : TickGwPatch(1, ok)
    \/ TickCfgPut(1, TRUE)
    \/ Advance(1, MixHours)

SpecMix == Init /\ [][NextMix]_vars

----------------------------------------------------------------------------
(* The date computations: a form saved once, on any day of more than a     *)
(* year, in either timezone, with day offsets of either sign that reach    *)
(* into other months and years; the immediate apply computes the limits.   *)

\* minDays and maxDays of the rule
OffsetPairs ==
    { <<-30, 0>>, <<-1, 1>>, <<-28, 29>>, <<-31, 31>>, <<-60, 59>>,
      <<-365, 365>>, <<-366, 366>>, <<-425, 306>> }

BoundaryFields ==
    { "u1" :> [enabled |-> TRUE, minDays |-> Num(p[1]), maxDays |-> Num(p[2])] :
        p \in OffsetPairs }

BoundaryZones == {"UTC", "America/New_York"}

InitBoundary ==
    /\ kv = [k \in Keys |-> Absent]
    /\ remote = [f \in Forms |-> InitBlocks]
    /\ now \in {d * HoursPerDay : d \in 0 .. MaxDay}
    /\ req = [s \in Slots |-> IdleReq]
    /\ tick = [t \in Ticks |-> IdleTick]
    /\ hist = InitHist

NextBoundary ==
    \/ /\ kv[ConfigKey(1)] = Absent
       /\ \E timezone \in BoundaryZones, fields \in BoundaryFields :
             SaveBegin(1, 1, "k1", 1, timezone, fields, TRUE)
    \/ SaveRlGet(1, TRUE)
    \/ SaveRlPut(1, TRUE)
    \/ SaveCfgPut(1, TRUE)
    \/ SaveGwGet(1, TRUE)
    \/ SaveGwPatch(1, TRUE)
    \/ Retire(1)

SpecBoundary == InitBoundary /\ [][NextBoundary]_vars

----------------------------------------------------------------------------
(* The form-fields request: configurations of two forms saved with either  *)
(* credential, and requests for their fields one after the other.          *)

FieldsKeys == ValidKeys \cup {"k3", ""}
FieldsForms == {1, 2}

NextFields ==
    \/ \E apiKey \in ValidKeys, formId \in FieldsForms, fields \in MixFields :
          SaveBegin(1, 1, apiKey, formId, "UTC", fields, TRUE)
    \/ SaveRlGet(1, TRUE)
    \/ SaveRlPut(1, TRUE)
    \/ SaveCfgPut(1, TRUE)
    \/ \E ok \in BOOLEAN : SaveGwGet(1, ok)
    \/ SaveGwPatch(1, TRUE)
    \/ \E apiKey \in FieldsKeys, formId \in FieldsForms \cup {0} :
          FieldsBegin(1, apiKey, formId)
    \/ \E ok \in BOOLEAN : FieldsFetch(1, ok)
    \/ \E ok \in BOOLEAN : FieldsCfgGet(1, ok)
    \/ Retire(1)

SpecFields == Init /\ [][NextFields]_vars

----------------------------------------------------------------------------
(* Concurrent edits: one form whose owner changes its title while saves    *)
(* and a pass patch it, all within one hour of the clock.                  *)

EditFields == {FieldsOn, FieldsBoth}
EditTitles == {"A", "B"}

NextEdit ==
    \/ \E fields \in EditFields : SaveBegin(1, 1, "k1", 1, "UTC", fields, TRUE)
    \/ SaveRlGet(1, TRUE)
    \/ SaveRlPut(1, TRUE)
    \/ SaveCfgPut(1, TRUE)
    \/ \E ok \in BOOLEAN : SaveGwGet(1, ok)
    \/ \E ok \in BOOLEAN : SaveGwPatch(1, ok)
    \/ Retire(1)
    \/ TickBegin(1, TRUE)
    \/ TickCfgGet(1, TRUE)
    \/ TickMetaGet(1, TRUE)
    \/ TickMetaPut(1, TRUE)
    \/ TickGwGet(1, TRUE)
    \/ \E ok \in BOOLEAN : TickGwPatch(1, ok)
    \/ TickCfgPut(1, TRUE)
    \/ \E title \in EditTitles : ExternalEdit(1, title)

SpecEdit == Init /\ [][NextEdit]_vars

----------------------------------------------------------------------------
(* Properties of the rate limiter.                                         *)

Done(s) == req[s].pc = "done"

\* the number the counter of an identity holds; 0 when it is absent
Counter(ip) == CurrentCount(KvGet(kv, RateLimitKey(ip)))

\* the day of the identity's counter, started when a request found the
\* counter absent, is not over
WithinDay(ip) == now - hist.seq[ip].start < DayTtl

\* C1: for non-overlapping save requests of one identity for form ids not
\* yet stored, starting with the counter absent and all well-formed and
\* served by a working store, within one day: the request is accepted
\* exactly when it is among the first 5; the 6th and every later one is
\* rejected.
C1_FirstFiveAccepted ==
    \A s \in Slots :
        (/\ Done(s) /\ req[s].kind = "save" /\ req[s].idx > 0
         /\ hist.seq[req[s].ip].clean /\ WithinDay(req[s].ip))
        => (req[s].status = 200 <=> req[s].idx <= RateLimitMax)

\* the 6th request of a day is rejected after 5 were accepted
C1_Witness ==
    \E s \in Slots :
        /\ Done(s) /\ req[s].kind = "save"
        /\ req[s].idx = RateLimitMax + 1 /\ req[s].reason = "quota"
        /\ hist.seq[req[s].ip].clean /\ WithinDay(req[s].ip)
        /\ hist.acc[req[s].ip] = RateLimitMax
        /\ Cardinality({f \in Forms : kv[ConfigKey(f)] # Absent}) = RateLimitMax

\* C2: the stored counter of every identity, when present, is between 1
\* and the ceiling 5, under every interleaving of list-forms and save
\* requests.
C2_CounterInRange ==
    \A ip \in IPs :
        kv[RateLimitKey(ip)] # Absent
        => ParseInt(kv[RateLimitKey(ip)].val.v) \in 1..RateLimitMax

\* two save requests of one identity both read 4 and both wrote the
\* counter, which stands at the ceiling
C2_Witness ==
    \E ip \in IPs :
        /\ Counter(ip) = RateLimitMax
        /\ \A s \in Slots :
            /\ req[s].kind = "save" /\ req[s].ip = ip
            /\ req[s].count = RateLimitMax - 1
            /\ RateLimitKey(ip) \in req[s].writes

\* C3: a save request for a new configuration that finds the identity's
\* counter at the ceiling is rejected before any side effect: it wrote no
\* store key (no config, no metadata, no counter) and called the gateway
\* neither to read nor to write.
C3_RejectedBeforeSideEffect ==
    \A s \in Slots :
        (req[s].kind = "save" /\ ~req[s].existing
         /\ req[s].count >= RateLimitMax)
        => /\ Done(s) /\ req[s].reason = "quota" /\ req[s].status # 200
           /\ req[s].writes = {}
           /\ req[s].gwReads = 0 /\ req[s].gwWrites = 0

\* a save for a form id without configuration was rejected at the ceiling,
\* and nothing is stored for the form
C3_Witness ==
    \E s \in Slots :
        /\ Done(s) /\ req[s].kind = "save" /\ req[s].reason = "quota"
        /\ req[s].count = RateLimitMax
        /\ kv[ConfigKey(req[s].formId)] = Absent
        /\ Counter(req[s].ip) = RateLimitMax

\* C4 as stated: no identity gets more than 5 new configurations accepted
\* within one day, also when its save requests run concurrently.
C4_AtMostFiveAlways ==
    \A ip \in IPs : WithinDay(ip) => hist.acc[ip] <= RateLimitMax

\* C4 amended: no identity gets more than 5 new configurations accepted
\* within one day as long as its save requests do not overlap.
C4_AtMostFiveSequential ==
    \A ip \in IPs :
        (WithinDay(ip) /\ ~hist.overlap[ip]) => hist.acc[ip] <= RateLimitMax

\* without overlap, the 5th configuration of the day was accepted and the
\* next request was rejected
C4_Witness ==
    \E ip \in IPs :
        /\ ~hist.overlap[ip] /\ WithinDay(ip)
        /\ hist.acc[ip] = RateLimitMax
        /\ \E s \in Slots :
            /\ Done(s) /\ req[s].kind = "save" /\ req[s].ip = ip
            /\ req[s].reason = "quota"
        /\ \E f \in Forms : kv[ConfigKey(f)] # Absent

\* C5 as stated: a save request that incremented the counter persisted a
\* configuration under a previously absent key and answered success.
C5_IncrementOnlyOnAccept ==
    \A s \in Slots :
        (Done(s) /\ req[s].kind = "save"
         /\ RateLimitKey(req[s].ip) \in req[s].writes)
        => /\ req[s].status = 200
           /\ ~req[s].existing
           /\ ConfigKey(req[s].formId) \in req[s].writes

\* C6: a save request for a form id whose configuration exists never reads
\* or writes a counter and is never rejected for quota, whoever sends it
\* and whatever the sender's counter holds.
C6_UpdateIsFree ==
    \A s \in Slots :
        (req[s].kind = "save" /\ req[s].existing)
        => /\ req[s].count = -1
           /\ \A ip \in IPs : RateLimitKey(ip) \notin req[s].writes
           /\ req[s].reason # "quota"

\* an identity whose counter is at the ceiling updated an existing
\* configuration
C6_Witness ==
    \E s \in Slots :
        /\ Done(s) /\ req[s].kind = "save" /\ req[s].existing
        /\ req[s].status = 200
        /\ ConfigKey(req[s].formId) \in req[s].writes
        /\ Counter(req[s].ip) = RateLimitMax

\* what a list-forms request answers once it has read the counter
FormsAnswer ==
    \A s \in Slots :
        (req[s].kind = "forms" /\ req[s].count # -1)
        => /\ (req[s].status = 429 <=> req[s].count >= RateLimitMax)
           /\ req[s].writes = {}

\* a step of a list-forms request leaves the store as it is
FormsStepKeepsStore ==
    \A s \in Slots :
        (/\ now' = now
         /\ req'[s] # req[s]
         /\ (req[s].kind = "forms" \/ req'[s].kind = "forms"))
        => kv' = kv

\* C7: the read-only check answers allowed exactly when the counter is
\* absent or below 5, and no step of a list-forms request changes any
\* store key, the counter and its expiry included.
C7_CheckOnly == []FormsAnswer /\ [][FormsStepKeepsStore]_vars

\* a list-forms request was refused at the ceiling and the counter is as
\* it was
C7_Witness ==
    \E s \in Slots :
        /\ Done(s) /\ req[s].kind = "forms" /\ req[s].status = 429
        /\ req[s].count = RateLimitMax
        /\ Counter(req[s].ip) = RateLimitMax

\* C8 as stated: a save request rejected for a missing or malformed
\* required field (apiKey, formId, timezone or fields) wrote no store key
\* and made no gateway call.
C8_MalformedWritesNothing ==
    \A s \in Slots :
        (Done(s) /\ req[s].kind = "save"
         /\ req[s].reason \in {"validation", "exception"})
        => /\ req[s].writes = {}
           /\ req[s].gwReads = 0 /\ req[s].gwWrites = 0

\* C9 as stated: the status of a save rejected for quota differs from the
\* status of a save that failed on a store error or an exception.
C9_QuotaStatusDistinct ==
    \A s1, s2 \in Slots :
        (/\ Done(s1) /\ req[s1].kind = "save" /\ req[s1].reason = "quota"
         /\ Done(s2) /\ req[s2].kind = "save"
         /\ req[s2].reason \in {"store", "exception"})
        => req[s1].status # req[s2].status

----------------------------------------------------------------------------
(* Properties of the scheduling decision.                                  *)

Patching(t) == tick[t].pc \in {"gwGet", "gwPatch", "cfgPut"} /\ tick[t].item.due

\* C11 as stated: when two passes overlap and process the same
\* configuration in the same local hour, at most one of them decides due
\* and runs the patcher.
C11_OneOverlappingDue ==
    \A t1, t2 \in Ticks :
        (/\ t1 # t2 /\ Patching(t1) /\ Patching(t2)
         /\ tick[t1].configData.formId = tick[t2].configData.formId
         /\ tick[t1].configData.timezone = tick[t2].configData.timezone)
        => tick[t1].cur # tick[t2].cur

\* the local date and hour, in the timezone of the configuration a pass is
\* deciding on, of the moment the pass read the clock
LocalNow(t) == TzTime(tick[t].configData.timezone, tick[t].at)

\* the metadata is absent or records another date or hour than local
Differs(metadata, local) ==
    \/ metadata = Null
    \/ metadata.lastUpdateDate # formatDate(local.date)
    \/ metadata.lastUpdateHour # local.hour

\* the step in which shouldUpdateNow compares: it does not return not-due
\* when the metadata differs
ComparesRight ==
    \A t \in Ticks :
        (/\ tick[t].pc = "metaGet"
         /\ tick'[t].item.decided /\ ~tick'[t].item.due)
        => ~Differs(KvGet(kv, MetadataKey(tick[t].configData.formId)),
                    LocalNow(t))

\* the step in which shouldUpdateNow returns due: the metadata stored is
\* the local date and hour
StoresLocalNow ==
    \A t \in Ticks :
        (tick[t].pc = "metaPut" /\ tick'[t].item.decided)
        => /\ tick'[t].item.due
           /\ ~Differs(KvGet(kv', MetadataKey(tick[t].configData.formId)),
                       LocalNow(t))

\* C13: for an active configuration, whenever the metadata is absent or
\* records a date or hour other than the current local ones, the decision
\* (when the store answers) is due, and the metadata stored by it is the
\* current local date and hour.
C13_DueWhenDiffers == [][ComparesRight /\ StoresLocalNow]_vars

\* a configuration in New York time was found due in a second local hour:
\* the metadata recorded the first and now records the second
C13_Witness ==
    \E t \in Ticks :
        /\ tick[t].pc = "gwGet" /\ tick[t].item.due
        /\ tick[t].configData.timezone = "America/New_York"
        /\ Cardinality(hist.due[tick[t].item.f]) >= 2
        /\ ~Differs(KvGet(kv, MetadataKey(tick[t].item.f)), LocalNow(t))

C15_RetriedByNextTick ==
    \A t \in Ticks :
        (tick[t].item.decided /\ tick[t].item.retry) => tick[t].item.due

----------------------------------------------------------------------------
(* Properties of inactive configurations and of the patcher.               *)

\* a day offset is configured: the value is a number
HasOffset(v) == v # Null /\ v # Undef

\* a field rule that asks for nothing: disabled, or without any offset
IdleRule(rule) ==
    ~rule.enabled \/ (~HasOffset(rule.minDays) /\ ~HasOffset(rule.maxDays))

\* C12 as stated: a configuration none of whose rules is enabled with an
\* offset is stored as inactive, and no pass gets past the disabled test
\* for it: no metadata read or write, no gateway call, no config write.
C12_InactiveNeverDue ==
    /\ \A f \in Forms :
        LET c == KvGet(kv, ConfigKey(f))
        IN  (c # Null /\ \A u \in DOMAIN c.fields : IdleRule(c.fields[u]))
            => c.disabled
    /\ \A t \in Ticks :
        LET c == tick[t].configData
        IN  c # Null => \E u \in DOMAIN c.fields : ~IdleRule(c.fields[u])

\* the block is a date field that the rules manage: its rule is enabled
\* and has an offset
Managed(block, fields) ==
    /\ block.type = "INPUT_DATE"
    /\ block.uuid \in DOMAIN fields
    /\ ~IdleRule(fields[block.uuid])

AllIdle(fields) == \A u \in DOMAIN fields : IdleRule(fields[u])

\* an attribute of a block; a block without payload has none
Attr(block, a) == IF block.payload = Undef THEN Undef ELSE block.payload[a]

\* the writes about to be sent: what the invocation read, the rules and
\* the local date it computed with, and the payload of the write
PatchWrites ==
    {[fields |-> req[s].config.fields, blocks |-> req[s].blocks,
      today |-> req[s].today, payload |-> req[s].payload] :
        s \in {x \in Slots : req[x].kind = "save" /\ req[x].pc = "gwPatch"}}
    \cup
    {[fields |-> tick[t].configData.fields, blocks |-> tick[t].blocks,
      today |-> tick[t].today, payload |-> tick[t].payload] :
        t \in {x \in Ticks : tick[x].pc = "gwPatch"}}

\* C16: in every write the patcher sends, every block that is not a date
\* block with an enabled rule having an offset is exactly as it was read.
C16_UnmanagedAsRead ==
    \A w \in PatchWrites :
        /\ Len(w.payload) = Len(w.blocks)
        /\ \A i \in DOMAIN w.blocks :
            ~Managed(w.blocks[i], w.fields) => w.payload[i] = w.blocks[i]

\* a write that changes one date field carries, unchanged, another date
\* field that holds limits and whose rule does not manage it
C16_Witness ==
    \E w \in PatchWrites : \E i, j \in DOMAIN w.blocks :
        /\ w.blocks[i].type = "INPUT_DATE" /\ ~Managed(w.blocks[i], w.fields)
        /\ w.blocks[i].payload # Undef
        /\ w.blocks[i].uuid \in DOMAIN w.fields
        /\ w.payload[i] = w.blocks[i]
        /\ Managed(w.blocks[j], w.fields) /\ w.payload[j] # w.blocks[j]

\* C17: whatever the remote form holds, an invocation of the patcher whose
\* configuration has only rules that are disabled or without offset sends
\* no write.
C17_NoRuleNoWrite ==
    /\ \A s \in Slots :
        (req[s].kind = "save" /\ req[s].config # Null
         /\ AllIdle(req[s].config.fields))
        => req[s].pc # "gwPatch" /\ req[s].gwWrites = 0
    /\ \A t \in Ticks :
        (tick[t].configData # Null /\ AllIdle(tick[t].configData.fields))
        => tick[t].pc # "gwPatch" /\ tick[t].item.gwWrites = 0

\* the patcher ran for a configuration without any offset, read a form
\* whose date field holds limits, and returned without a write
C17_Witness ==
    \E t \in Ticks :
        /\ tick[t].pc = "cfgPut"
        /\ AllIdle(tick[t].configData.fields)
        /\ tick[t].item.gwReads = 1 /\ tick[t].item.gwWrites = 0
        /\ \E i \in DOMAIN tick[t].blocks :
            /\ tick[t].blocks[i].type = "INPUT_DATE"
            /\ Attr(tick[t].blocks[i], "afterDate") # Undef

\* the boundary the rules ask for differs from what the block holds
NeedsChange(block, fields, today) ==
    /\ Managed(block, fields)
    /\ LET rule == fields[block.uuid]
       IN  \/ /\ HasOffset(rule.minDays)
              /\ Attr(block, "afterDate") #
                    Str(formatDate(AddDays(today, rule.minDays.v)))
           \/ /\ HasOffset(rule.maxDays)
              /\ Attr(block, "beforeDate") #
                    Str(formatDate(AddDays(today, rule.maxDays.v)))

\* C18: the patcher sends a write only when a computed boundary differs
\* from the value read, and the patcher applied to what it writes, with
\* the same rules and the same local date, has nothing to write.
C18_WritesOnlyChanges ==
    \A w \in PatchWrites :
        /\ \E i \in DOMAIN w.blocks : NeedsChange(w.blocks[i], w.fields, w.today)
        /\ ~BlocksModified(w.payload, w.fields, w.today)

\* right after the immediate apply of a save wrote the limits, a pass ran
\* the patcher with the same configuration on the same local date: it
\* read the form and sent no write
C18_Witness ==
    \E t \in Ticks, s \in Slots :
        /\ req[s].pc = "done" /\ req[s].kind = "save" /\ req[s].gwWrites = 1
        /\ tick[t].pc = "cfgPut" /\ tick[t].item.f = req[s].formId
        /\ tick[t].configData.fields = FieldsBoth
        /\ tick[t].configData.timezone = "America/New_York"
        /\ tick[t].configData.lastRun = Null
        /\ tick[t].item.gwReads = 1 /\ tick[t].item.gwWrites = 0

\* the date fields with an enabled rule hold the boundaries of the local
\* date today where the rule has an offset; where the offset is null, what
\* the form held when it was read
AsConfigured(after, read, fields, today) ==
    /\ Len(after) = Len(read)
    /\ \A i \in DOMAIN read :
        (/\ read[i].type = "INPUT_DATE" /\ read[i].uuid \in DOMAIN fields
         /\ fields[read[i].uuid].enabled)
        => LET rule == fields[read[i].uuid]
           IN  /\ HasOffset(rule.minDays)
                  => Attr(after[i], "afterDate") =
                        Str(formatDate(AddDays(today, rule.minDays.v)))
               /\ rule.minDays = Null
                  => Attr(after[i], "afterDate") = Attr(read[i], "afterDate")
               /\ HasOffset(rule.maxDays)
                  => Attr(after[i], "beforeDate") =
                        Str(formatDate(AddDays(today, rule.maxDays.v)))
               /\ rule.maxDays = Null
                  => Attr(after[i], "beforeDate") = Attr(read[i], "beforeDate")

\* a pass whose patcher has returned: the form is as configured, for the
\* local date of the configuration's timezone
TickApplied ==
    \A t \in Ticks :
        tick[t].pc = "cfgPut"
        => /\ tick[t].today = TzTime(tick[t].configData.timezone, now).date
           /\ AsConfigured(remote[tick[t].configData.formId], tick[t].blocks,
                           tick[t].configData.fields, tick[t].today)

\* the step in which the immediate apply of a save returns without
\* failure: the form is as configured
SaveApplied ==
    \A s \in Slots :
        (/\ req[s].kind = "save" /\ req[s].pc \in {"gwGet", "gwPatch"}
         /\ req'[s].pc = "done" /\ hist'.applyFailed = hist.applyFailed)
        => LET c == req[s].config
               local == TzTime(c.timezone, now).date
           IN  IF req[s].pc = "gwGet"
               THEN AsConfigured(remote'[c.formId], remote[c.formId],
                                 c.fields, local)
               ELSE /\ req[s].today = local
                    /\ AsConfigured(remote'[c.formId], req[s].blocks,
                                    c.fields, req[s].today)

\* C19: after an invocation of the patcher that completes without
\* failure, every date field with an enabled rule has afterDate equal to
\* local today + minDays and beforeDate equal to local today + maxDays
\* where the offset is a number, and keeps the value read where the offset
\* is null.
C19_BoundariesAsConfigured == []TickApplied /\ [][SaveApplied]_vars

\* at 00:00 UTC of 2024-02-28, 2024-02-27 in New York, a pass wrote the
\* limits of minDays -1 and maxDays 2: the 26th and, 2024 being a leap
\* year, the 29th of February
C19_Witness ==
    \E t \in Ticks :
        /\ tick[t].pc = "cfgPut" /\ now = 0
        /\ tick[t].configData.fields = FieldsBoth
        /\ tick[t].configData.timezone = "America/New_York"
        /\ tick[t].item.gwWrites = 1
        /\ \E i \in DOMAIN remote[1] :
            /\ remote[1][i].uuid = "u1"
            /\ remote[1][i].payload.afterDate = Str("2024-02-26")
            /\ remote[1][i].payload.beforeDate = Str("2024-02-29")

\* the block p of a payload against the block b read: the same block, or
\* a managed date block in which only boundaries that had to change
\* differ, each holding what the rule asks for
OnlyBoundariesChanged(p, b, fields, today) ==
    /\ p.uuid = b.uuid /\ p.type = b.type
    /\ \/ p = b
       \/ /\ NeedsChange(b, fields, today)
          /\ [p.payload EXCEPT !.afterDate = Attr(b, "afterDate"),
                               !.beforeDate = Attr(b, "beforeDate")]
                = (IF b.payload = Undef THEN EmptyPayload ELSE b.payload)
          /\ LET rule == fields[b.uuid]
             IN  /\ \/ p.payload.afterDate = Attr(b, "afterDate")
                    \/ /\ HasOffset(rule.minDays)
                       /\ p.payload.afterDate =
                            Str(formatDate(AddDays(today, rule.minDays.v)))
                 /\ \/ p.payload.beforeDate = Attr(b, "beforeDate")
                    \/ /\ HasOffset(rule.maxDays)
                       /\ p.payload.beforeDate =
                            Str(formatDate(AddDays(today, rule.maxDays.v)))

\* C20: an invocation of the patcher reads the form exactly once and
\* writes it at most once, after the read, and the payload of the write
\* is the whole block collection that was read, in which only the changed
\* boundaries of managed date fields differ.
C20_OneReadOneFullWrite ==
    /\ \A s \in Slots :
        req[s].kind = "save"
        => /\ req[s].gwReads <= 1 /\ req[s].gwWrites <= req[s].gwReads
           /\ req[s].pc = "gwPatch"
              => req[s].gwReads = 1 /\ req[s].gwWrites = 0
    /\ \A t \in Ticks :
        /\ tick[t].item.gwReads <= 1
        /\ tick[t].item.gwWrites <= tick[t].item.gwReads
        /\ tick[t].pc = "gwPatch" => tick[t].item.gwWrites = 0
        /\ tick[t].pc \in {"gwPatch", "cfgPut"} => tick[t].item.gwReads = 1
    /\ \A w \in PatchWrites :
        /\ Len(w.payload) = Len(w.blocks)
        /\ \A i \in DOMAIN w.blocks :
            OnlyBoundariesChanged(w.payload[i], w.blocks[i], w.fields, w.today)

\* a write carries the three blocks read: the title as it was, and a date
\* field whose beforeDate changed while its afterDate and its label stayed
C20_Witness ==
    \E w \in PatchWrites : \E i, j \in DOMAIN w.blocks :
        /\ Len(w.payload) = 3
        /\ w.blocks[j].type = "TITLE" /\ w.payload[j] = w.blocks[j]
        /\ w.blocks[i].type = "INPUT_DATE" /\ w.blocks[i].payload # Undef
        /\ w.payload[i].payload.beforeDate # w.blocks[i].payload.beforeDate
        /\ w.payload[i].payload.afterDate = w.blocks[i].payload.afterDate
        /\ w.payload[i].payload.afterDate # Undef

----------------------------------------------------------------------------
(* Properties of failures and of the stored configuration.                 *)

\* C21: for a save request with an active rule, a failure of the immediate
\* apply (of its read or of its write) does not prevent persistence: the
\* configuration is stored under its config key without expiry and the
\* request answers success.
C21_SavedDespiteFailedApply ==
    \A s \in Slots :
        (/\ Done(s) /\ req[s].kind = "save" /\ req[s].gwReads >= 1
         /\ hist.applyFailed[req[s].formId] # NoHour)
        => /\ req[s].status = 200
           /\ ConfigKey(req[s].formId) \in req[s].writes
           /\ kv[<<"config", req[s].formId>>] # Absent
           /\ kv[<<"config", req[s].formId>>].exp = NoExpiry
           /\ ~kv[<<"config", req[s].formId>>].val.disabled

\* the write of the immediate apply failed; the request answered success
\* and the configuration is stored for good
C21_Witness ==
    \E s \in Slots :
        /\ Done(s) /\ req[s].kind = "save" /\ req[s].gwWrites = 1
        /\ hist.applyFailed[req[s].formId] = now
        /\ req[s].status = 200
        /\ kv[<<"config", req[s].formId>>] # Absent
        /\ kv[<<"config", req[s].formId>>].exp = NoExpiry
        /\ kv[<<"config", req[s].formId>>].val.fields = FieldsOn

\* the step of a pass in which the GET or the PATCH of the patcher fails
PatchFails(t) ==
    /\ tick[t].pc \in {"gwGet", "gwPatch"}
    /\ tick'[t].pc \notin {"gwPatch", "cfgPut"}
    /\ ~tick'[t].cancelled
    /\ now' = now

\* after that step the pass is at the next key of its list, or complete
\* when there is none; nothing was stored and no form was changed
OnlyItemFails(t) ==
    /\ ~tick'[t].crashed
    /\ IF Len(tick[t].keys) > 1
       THEN tick'[t].pc = "cfgGet" /\ tick'[t].keys = Tail(tick[t].keys)
       ELSE tick'[t].pc = "idle"
    /\ kv' = kv
    /\ remote' = remote

\* C22: in a pass, a failure of the gateway read or write while patching
\* one configuration is a failure of that item only: the pass goes on with
\* the remaining configurations and the stored lastRun of the failed one
\* is not updated.
C22_PatchFailureSkipsItem ==
    [][\A t \in Ticks : PatchFails(t) => OnlyItemFails(t)]_vars

\* the patch of the first configuration of a pass failed; the pass then
\* patched the second one and is about to record its lastRun, while the
\* first one has none
C22_Witness ==
    \E t \in Ticks :
        /\ tick[t].pc = "cfgPut" /\ tick[t].item.f = 2
        /\ tick[t].item.gwWrites = 1
        /\ hist.failed[1] # NoPair
        /\ kv[<<"config", 1>>] # Absent
        /\ kv[<<"config", 1>>].val.lastRun = Null
        /\ remote[1] = InitBlocks /\ remote[2] # InitBlocks

\* C23 as stated: a store failure during a pass, on the list of the
\* configurations or on a get or put for one configuration or its
\* metadata, aborts at most the processing of the current configuration:
\* no pass fails as a whole.
C23_StoreFailureNeverFailsPass ==
    \A t \in Ticks : ~tick[t].crashed

\* C24: in every reachable state, under every interleaving of save
\* requests and passes, a stored configuration that is disabled carries the
\* 3-day expiry of the put that stored it, and a stored configuration that
\* is not disabled carries no expiry; the write-back of lastRun by a pass
\* never stores a disabled configuration without expiry.
C24_ExpiryFollowsDisabled ==
    \A f \in Forms :
        kv[<<"config", f>>] # Absent
        => IF kv[<<"config", f>>].val.disabled
           THEN /\ kv[<<"config", f>>].exp # NoExpiry
                /\ kv[<<"config", f>>].exp - DisabledTtl \in 0 .. now
           ELSE kv[<<"config", f>>].exp = NoExpiry

\* a pass is about to write lastRun back into a configuration that a save
\* has meanwhile stored as disabled, with its expiry
C24_Witness ==
    \E t \in Ticks :
        /\ tick[t].pc = "cfgPut"
        /\ ~tick[t].configData.disabled
        /\ kv[<<"config", tick[t].configData.formId>>] # Absent
        /\ kv[<<"config", tick[t].configData.formId>>].val.disabled
        /\ kv[<<"config", tick[t].configData.formId>>].exp = now + DisabledTtl

\* C25 as stated: a saved configuration is stored as active exactly when
\* some rule is enabled and has minDays or maxDays non-null, which is
\* exactly when the patcher manages some rule, also when an offset is
\* absent from the rule instead of null.
C25_ActiveIffManaged ==
    \A f \in Forms :
        kv[<<"config", f>>] # Absent
        => (~kv[<<"config", f>>].val.disabled
            <=> ~AllIdle(kv[<<"config", f>>].val.fields))

\* the stored lastRun of form f after the step
LastRunAfter(f) == kv'[<<"config", f>>].val.lastRun

\* the step in which the immediate apply of a save returns
ApplyReturns(s) ==
    /\ req[s].kind = "save" /\ req[s].pc \in {"gwGet", "gwPatch"}
    /\ req'[s].pc = "done"

\* the step in which a pass whose patcher returned without failure ends
\* the item
PassItemEnds(t) ==
    /\ tick[t].pc = "cfgPut" /\ tick'[t].pc # "cfgPut"
    /\ ~tick'[t].cancelled /\ now' = now

\* a patch attempt of a pass that completed is recorded as lastRun, and a
\* failed attempt of a pass or of a save leaves the stored configuration
\* as it is
PassRecordsLastRun ==
    /\ \A t \in Ticks :
        /\ PassItemEnds(t) => LastRunAfter(tick[t].configData.formId) = Num(now)
        /\ PatchFails(t) => kv' = kv
    /\ \A s \in Slots :
        (ApplyReturns(s) /\ hist'.applyFailed # hist.applyFailed) => kv' = kv

\* an immediate apply that completed is recorded as lastRun
SaveRecordsLastRun ==
    \A s \in Slots :
        (ApplyReturns(s) /\ hist'.applyFailed = hist.applyFailed)
        => LastRunAfter(req[s].formId) = Num(now)

\* C26 as stated: the stored lastRun of a configuration is the time of its
\* last patch attempt that completed without failure, from a pass or from
\* the immediate apply of a save, whether or not it wrote; a failed
\* attempt leaves lastRun unchanged.
C26_LastRunIsLastSuccess == [][PassRecordsLastRun /\ SaveRecordsLastRun]_vars

\* C28 as stated: when a pass is cancelled, every configuration whose
\* patch the pass has not attempted remains pending: the next decision a
\* pass takes for it is due, also in the same local hour.
C28_CancelledRemainPending ==
    \A t \in Ticks :
        (tick[t].item.decided /\ tick[t].item.pending) => tick[t].item.due

\* a pass in the middle of an item holds the configuration of the key it
\* is at, and has written for this item at most that key and the metadata
\* key of the same form
HoldsOwnItem ==
    \A t \in Ticks :
        tick[t].pc \notin {"idle", "cfgGet"}
        => /\ tick[t].configData # Null
           /\ tick[t].configData.formId = tick[t].keys[1][2]
           /\ tick[t].item.f = tick[t].keys[1][2]
           /\ tick[t].item.writes \subseteq
                {<<"config", tick[t].keys[1][2]>>,
                 <<"metadata", tick[t].keys[1][2]>>}

\* a step of a pass at the key of one form leaves the config key, the
\* metadata key and the remote form of every other form, and every
\* counter, as they are
OthersUntouched ==
    \A t \in Ticks :
        (tick[t].pc # "idle" /\ tick'[t] # tick[t] /\ now' = now)
        => /\ \A g \in Forms \ {tick[t].keys[1][2]} :
                /\ kv'[<<"config", g>>] = kv[<<"config", g>>]
                /\ kv'[<<"metadata", g>>] = kv[<<"metadata", g>>]
                /\ remote'[g] = remote[g]
           /\ \A ip \in IPs :
                kv'[<<"ratelimit", ip>>] = kv[<<"ratelimit", ip>>]

\* C29: within a pass, processing one configuration reads and writes only
\* its own config key, its own metadata key and its own remote form; those
\* of every other configuration, and every quota counter, are left
\* unchanged by it.
C29_ItemTouchesOwnKeys == []HoldsOwnItem /\ [][OthersUntouched]_vars

\* a pass has processed both configurations: for the second it wrote the
\* second's metadata, form and config key, while the first, whose patch
\* failed, has its own metadata, its form unpatched and no lastRun
C29_Witness ==
    \E t \in Ticks :
        /\ tick[t].pc = "idle" /\ tick[t].item.f = 2
        /\ tick[t].item.writes = {<<"config", 2>>, <<"metadata", 2>>}
        /\ kv[<<"metadata", 1>>] # Absent /\ kv[<<"metadata", 2>>] # Absent
        /\ kv[<<"config", 1>>] # Absent
        /\ kv[<<"config", 1>>].val.lastRun = Null
        /\ kv[<<"config", 2>>].val.lastRun = Num(now)
        /\ remote[1] = InitBlocks /\ remote[2] # InitBlocks
        /\ kv[<<"ratelimit", 1>>].val = Str("2")

\* a step of a save request
SaveStep(s) ==
    /\ req[s].kind = "save" \/ req'[s].kind = "save"
    /\ req'[s] # req[s]
    /\ now' = now

\* the step that stores a configuration with an active rule starts the
\* patcher, and the step after it sends the GET, whatever the metadata
\* holds
ApplyFollowsStore ==
    \A s \in Slots :
        /\ (/\ SaveStep(s) /\ req[s].pc = "cfgPut"
            /\ <<"config", req[s].formId>> \in req'[s].writes
            /\ ~AllIdle(req[s].fields))
           => req'[s].pc = "gwGet"
        /\ (SaveStep(s) /\ req[s].pc = "gwGet")
           => req'[s].gwReads = req[s].gwReads + 1

\* no step of a save request changes a metadata key
SaveKeepsMetadata ==
    \A s \in Slots :
        SaveStep(s)
        => \A f \in Forms : kv'[<<"metadata", f>>] = kv[<<"metadata", f>>]

\* what a save request has written: never a metadata key
SaveWrites ==
    \A s \in Slots :
        req[s].kind = "save"
        => \A f \in Forms : <<"metadata", f>> \notin req[s].writes

\* C30: a save request with an active rule always invokes the patcher once
\* it has stored the configuration, whatever the run metadata says, also
\* when the metadata records the current local date and hour; the save
\* path never reads or writes the run metadata.
C30_SaveBypassesGate ==
    []SaveWrites /\ [][ApplyFollowsStore /\ SaveKeepsMetadata]_vars

\* a save has run the patcher and written the form in a local hour for
\* which the metadata already records a due decision
C30_Witness ==
    \E s \in Slots :
        /\ Done(s) /\ req[s].kind = "save" /\ req[s].status = 200
        /\ req[s].gwReads = 1 /\ req[s].gwWrites = 1
        /\ hist.applyFailed[req[s].formId] = NoHour
        /\ kv[<<"metadata", req[s].formId>>] # Absent
        /\ kv[<<"config", req[s].formId>>].val.timezone = "UTC"
        /\ ~Differs(kv[<<"metadata", req[s].formId>>].val, TzTime("UTC", now))
        /\ \A t \in Ticks : tick[t].pc = "idle"

\* what one item of a pass, and one save request, have done: one decision
\* at most, taken before any gateway call, and one GET and one PATCH at
\* most; the keys of a pass are all different
OncePerItem ==
    /\ \A t \in Ticks :
        /\ tick[t].item.gwReads <= 1 /\ tick[t].item.gwWrites <= 1
        /\ tick[t].pc \in {"metaGet", "metaPut"}
           => /\ ~tick[t].item.decided
              /\ tick[t].item.gwReads = 0 /\ tick[t].item.gwWrites = 0
        /\ \A i, j \in DOMAIN tick[t].keys :
            i # j => tick[t].keys[i] # tick[t].keys[j]
    /\ \A s \in Slots :
        req[s].kind = "save" => req[s].gwReads <= 1 /\ req[s].gwWrites <= 1

\* the step that ends an item of a pass, however it ended, leaves the
\* pass at the key after it
NeverSameKeyAgain ==
    \A t \in Ticks :
        (tick[t].pc # "idle" /\ tick'[t].pc = "cfgGet" /\ now' = now)
        => tick'[t].keys = Tail(tick[t].keys)

\* C31: nothing is retried in the loop: within one pass every
\* configuration gets at most one scheduling decision, one gateway read
\* and one gateway write, whatever fails, and a save request causes at
\* most one gateway read and one gateway write.
C31_NoRetryInLoop == []OncePerItem /\ [][NeverSameKeyAgain]_vars

\* the write for the first configuration of a pass failed after one
\* decision, one read and one write; the pass is at the second key and the
\* form is as it was
C31_Witness ==
    \E t \in Ticks :
        /\ tick[t].pc = "cfgGet" /\ Len(tick[t].keys) = 1
        /\ tick[t].item.f = 1 /\ tick[t].item.decided /\ tick[t].item.due
        /\ tick[t].item.gwReads = 1 /\ tick[t].item.gwWrites = 1
        /\ hist.failed[1] # NoPair
        /\ remote[1] = InitBlocks

\* a stored configuration without its lastRun
SavedPart(c) == [c EXCEPT !.lastRun = Null]

\* the put of a pass changes at most lastRun of the configuration that is
\* stored at that moment, and does not take the expiry from a disabled one
PassKeepsSaved ==
    \A t \in Ticks :
        (tick[t].pc = "cfgPut" /\ kv' # kv)
        => LET key == Head(tick[t].keys)
           IN  kv[key] # Absent
               => /\ kv'[key] # Absent
                  /\ SavedPart(kv'[key].val) = SavedPart(kv[key].val)
                  /\ kv[key].val.disabled => kv'[key].exp = kv[key].exp

\* C32: between two saves the stored credential, timezone, field rules and
\* disabled flag of a form are those of the most recent save, under every
\* interleaving with a tick: a pass that read the configuration before the
\* save changes at most lastRun, never writes back older field rules and
\* never re-activates a configuration the save disabled.
C32_SaveWinsOverPass == [][PassKeepsSaved]_vars

\* the payload of the title block of form f
TitleOf(f) == remote[f][1].payload

\* C33 as stated: an external edit that lands between the patcher's read
\* and its write is preserved: after the write every attribute other than
\* the boundaries the patcher changed has the value of the latest external
\* edit.
C33_EditInWindowPreserved ==
    \A f \in Forms :
        hist.edit[f].val # NoEdit => TitleOf(f) = hist.edit[f].val

\* C33: an external edit that lands outside the window between a read of
\* the patcher and the write that follows it is preserved by every write:
\* the title of the form is the one of the latest such edit.
C33_EditBeforeReadPreserved ==
    \A f \in Forms :
        (hist.edit[f].val # NoEdit /\ ~hist.edit[f].raced)
        => TitleOf(f) = hist.edit[f].val

\* a pass has patched the form from a read that saw the owner's edit of
\* the title, and the title is the edited one
C33_Witness ==
    \E t \in Ticks :
        /\ tick[t].pc = "cfgPut" /\ tick[t].item.gwWrites = 1
        /\ hist.edit[1].val # NoEdit /\ ~hist.edit[1].raced
        /\ tick[t].blocks[1].payload = hist.edit[1].val
        /\ remote[1][2].payload.afterDate # Undef
        /\ TitleOf(1) = hist.edit[1].val

\* the hour of the most recent new configuration accepted from ip
LastAccepted(ip) == hist.accAt[ip][Len(hist.accAt[ip])]

\* the counter of an identity is there, with an expiry of at least a day
\* after the most recent acceptance, until a day after that acceptance
CounterOutlivesAcceptance ==
    \A ip \in IPs :
        (hist.accAt[ip] # <<>> /\ now - LastAccepted(ip) < DayTtl)
        => /\ kv[RateLimitKey(ip)] # Absent
           /\ kv[RateLimitKey(ip)].exp >= LastAccepted(ip) + DayTtl

\* of six acceptances in a row the last is a day or more after the first
AtMostFivePerWindow ==
    \A ip \in IPs :
        Len(hist.accAt[ip]) = RateLimitMax + 1
        => hist.accAt[ip][RateLimitMax + 1] - hist.accAt[ip][1] >= DayTtl

\* the put of incrementRateLimit sets the expiry to one day from now
ReservationRestartsExpiry ==
    \A s \in Slots :
        (/\ req[s].kind = "save" /\ req[s].pc = "rlPut"
         /\ kv'[RateLimitKey(req[s].ip)] # kv[RateLimitKey(req[s].ip)])
        => kv'[RateLimitKey(req[s].ip)].exp = now + DayTtl

C35_OwnCredentialOnly ==
    \A s \in Slots :
        (/\ Done(s) /\ req[s].kind = "fields" /\ req[s].status = 200
         /\ req[s].configuration # Null)
        => req[s].configuration.apiKey = req[s].apiKey

\* a list-forms request answered 429 read a counter at the ceiling and has
\* called nothing; one that read a counter absent or below the ceiling is
\* not answered 429 and is at the gateway call or past it; neither has
\* written to the store
FormsGate ==
    \A s \in Slots :
        (req[s].kind = "forms" /\ req[s].count # -1)
        => /\ req[s].status = 429
              => /\ req[s].count >= RateLimitMax
                 /\ req[s].gwReads = 0 /\ Done(s)
           /\ req[s].count < RateLimitMax
              => /\ req[s].status # 429
                 /\ req[s].pc = "fetchForms" \/ req[s].gwReads = 1
           /\ req[s].writes = {}

\* the gateway is called for a list-forms request only after a counter
\* below the ceiling was read, and the call changes no store key
FormsGatewayAfterCheck ==
    \A s \in Slots :
        (req[s].kind = "forms" /\ req'[s].gwReads > req[s].gwReads)
        => /\ req[s].count # -1 /\ req[s].count < RateLimitMax
           /\ kv' = kv

\* C36: a list-forms request of an identity whose counter is at the
\* ceiling is answered 429 before any call of the gateway and without any
\* store write; with the counter absent or below 5 the request proceeds,
\* and still writes nothing to the store.
C36_ListFormsGate == []FormsGate /\ [][FormsGatewayAfterCheck]_vars

\* one list-forms request was refused at the ceiling without a gateway
\* call, another went through with no counter, and both counters are as
\* they were read
C36_Witness ==
    \E s, o \in Slots :
        /\ Done(s) /\ req[s].kind = "forms" /\ req[s].status = 429
        /\ req[s].gwReads = 0 /\ Counter(req[s].ip) = req[s].count
        /\ Done(o) /\ req[o].kind = "forms" /\ req[o].status = 200
        /\ req[o].count = 0 /\ req[o].gwReads = 1
        /\ kv[RateLimitKey(req[o].ip)] = Absent

----------------------------------------------------------------------------
(* Properties of the date computations.  The calendar they are compared    *)
(* with counts days: a date is the number of days since 1970-01-01 in the  *)
(* proleptic Gregorian calendar, and back.                                 *)

DayNumber(date) ==
    LET y == IF date.m <= 2 THEN date.y - 1 ELSE date.y
        era == y \div 400
        yoe == y - era * 400
        mp == (date.m + 9) % 12
        doy == (153 * mp + 2) \div 5 + date.d - 1
        doe == yoe * 365 + yoe \div 4 - yoe \div 100 + doy
    IN  era * 146097 + doe - 719468

CivilFromDays(n) ==
    LET z == n + 719468
        era == z \div 146097
        doe == z - era * 146097
        yoe == (doe - doe \div 1460 + doe \div 36524 - doe \div 146096) \div 365
        doy == doe - (365 * yoe + yoe \div 4 - yoe \div 100)
        mp == (5 * doy + 2) \div 153
        m == IF mp < 10 THEN mp + 3 ELSE mp - 9
    IN  [y |-> yoe + era * 400 + (IF m <= 2 THEN 1 ELSE 0),
         m |-> m,
         d |-> doy - (153 * mp + 2) \div 5 + 1]

\* YYYY-MM-DD, digit by digit
Ymd(date) ==
    ToString(date.y \div 1000) \o ToString((date.y \div 100) % 10)
    \o ToString((date.y \div 10) % 10) \o ToString(date.y % 10) \o "-"
    \o ToString(date.m \div 10) \o ToString(date.m % 10) \o "-"
    \o ToString(date.d \div 10) \o ToString(date.d % 10)

\* the calendar date in zone tz at hour h of the clock
LocalDate(tz, h) ==
    CivilFromDays(DayNumber(EpochDate) + (h + TzOffset[tz]) \div HoursPerDay)

\* the calendar date days days from date, as the form takes it
Boundary(date, days) == Str(Ymd(CivilFromDays(DayNumber(date) + days)))

\* C27: for every local calendar date and every signed day offset, the
\* boundary computed is the calendar date exactly that many days from the
\* local date, formatted YYYY-MM-DD, across month ends, leap days and year
\* ends; for the local date 2024-03-10 the offsets -30 and 0 give
\* 2024-02-09 and 2024-03-10.
C27_BoundaryIsCalendarDate ==
    /\ formatDate(AddDays([y |-> 2024, m |-> 3, d |-> 10], -30)) = "2024-02-09"
    /\ formatDate(AddDays([y |-> 2024, m |-> 3, d |-> 10], 0)) = "2024-03-10"
    /\ \A s \in Slots :
        (req[s].kind = "save" /\ req[s].pc = "gwPatch")
        => LET c == req[s].config
               local == LocalDate(c.timezone, now)
           IN  \A i \in DOMAIN req[s].payload :
                   LET b == req[s].payload[i]
                   IN  (b.type = "INPUT_DATE" /\ b.uuid \in DOMAIN c.fields)
                       => /\ b.payload.afterDate =
                                Boundary(local, c.fields[b.uuid].minDays.v)
                          /\ b.payload.beforeDate =
                                Boundary(local, c.fields[b.uuid].maxDays.v)

\* on 2024-03-10 in New York the limits of the offsets -30 and 0 are about
\* to be written: 2024-02-09 and 2024-03-10
C27_Witness ==
    \E s \in Slots :
        /\ req[s].kind = "save" /\ req[s].pc = "gwPatch"
        /\ req[s].config.timezone = "America/New_York"
        /\ LocalDate("America/New_York", now) = [y |-> 2024, m |-> 3, d |-> 10]
        /\ req[s].config.fields["u1"].minDays = Num(-30)
        /\ req[s].config.fields["u1"].maxDays = Num(0)
        /\ req[s].payload[2].payload.afterDate = Str("2024-02-09")
        /\ req[s].payload[2].payload.beforeDate = Str("2024-03-10")

====
